---- MODULE Spec2Model ----
(***************************************************************************)
(* A model of the audio assistant: the silence-gated segmenter thread of   *)
(* audio_handler.py and the session registry of websocket_manager.py.      *)
(***************************************************************************)
EXTENDS Integers, Sequences, FiniteSets, TLC

(***************************************************************************)
(* Configuration (config.py) and the literals of the segmenter loop.       *)
(***************************************************************************)
AUDIO_CHUNK_SIZE == 4096
AUDIO_RATE == 16000
SILENCE_THRESHOLD == 200
\* SILENCE_DURATION = 1.5 seconds, kept in tenths of a second.
SILENCE_DURATION_TENTHS == 15
\* len(audio_buffer) > 20
MinFrames == 20
\* len(audio_buffer) > 100
HardCap == 100
\* audio_buffer[-50:]
TailFrames == 50

\* silence_threshold = int(SILENCE_DURATION * AUDIO_RATE / AUDIO_CHUNK_SIZE)
ThresholdFrames ==
    (SILENCE_DURATION_TENTHS * AUDIO_RATE) \div (10 * AUDIO_CHUNK_SIZE)

(***************************************************************************)
(* Bounds of the model.                                                    *)
(***************************************************************************)
\* Bytes of one frame (the program reads 2 * AUDIO_CHUNK_SIZE of them).
FrameSize == 2
\* Frames one worker reads from its stream.
MaxReads == 108
\* Worker threads start_listening may create.
MaxThreads == 2
\* Utterances the explored runs submit to the executor.
MaxFlushes == 2
\* Longest run of loud frames a scenario tape starts with.
MaxTapeLoud == 30
\* Websocket connections accepted.
MaxConns == 2
\* Client messages handled, over all connections.
MaxMsgs == 2
\* Transcriptions delivered by the audio pipeline.
MaxBroadcasts == 1
\* Fragments one reply stream yields.
MaxChunks == 1
\* Seconds the clock advances.
MaxTicks == 2
\* Fragments of one reply in ReqSpec.
MaxReqChunks == 2
\* Transport items of one provider answer.
MaxItems == 2
\* Tokens of a HuggingFace reply.
MaxReplyLen == 3
\* Frames a worker reads in ListenSpec.
MaxListenReads == 2

Threads == 1..MaxThreads

\* Amplitudes a frame may have (np.abs(audio_array).mean() of the frame): the
\* largest silent one and the smallest loud one.
SilentLevel == SILENCE_THRESHOLD - 1
LoudLevel == SILENCE_THRESHOLD
Levels == {SilentLevel, LoudLevel}

VARIABLES
    is_listening,   \* AudioHandler.is_listening
    audio_thread,   \* AudioHandler.audio_thread: 0 (None) or the newest thread
    worker,         \* per thread: pc and the locals of _listen_continuously
    work_queue,     \* utterances submitted to the executor and not yet taken
    in_flight,      \* utterances the pool's threads are transcribing
    tape_loud,      \* scenario input: frames 1..tape_loud are loud, the rest silent
    amp,            \* one amplitude computation: the frame's samples, the result
    last_op,        \* history: the audio handler's operation performed last
    clock,          \* asyncio.get_event_loop().time(), in seconds
    api_keys,       \* the providers whose Config.*_API_KEY is set
    active_connections,         \* ConnectionManager.active_connections
    conversation_histories,     \* websocket -> list object (0: no entry)
    heap,                       \* the list objects: heap[i] is the list i
    connection_llm_clients,     \* websocket -> client (NoClient: no entry)
    connection_model_configs,   \* websocket -> profile (NoConfig: no entry)
    connection_audio_handlers,  \* the websockets with an entry
    last_model_switch,          \* websocket._last_model_switch (0: not set)
    sent,           \* websocket -> the events its client has received
    endpoint,       \* websocket -> where websocket_endpoint stands
    client_open,    \* websocket -> the peer still holds the connection
    handler,        \* owner -> a handle_transcription call and its locals
    bcast,          \* broadcast -> a broadcast_transcription call
    n_msgs,         \* client messages handled so far
    created,        \* the last create_llm_client call and what it returned
    provider,       \* a reply stream's client binding and what its provider does
    gen,            \* the generator of one get_streaming_response call
    built           \* one _build_messages call: its arguments and its result

segvars == <<is_listening, audio_thread, worker, work_queue, in_flight,
             tape_loud, amp, amp, last_op>>
regvars == <<clock, api_keys, active_connections, conversation_histories, heap,
             connection_llm_clients, connection_model_configs,
             connection_audio_handlers, last_model_switch, sent, endpoint,
             client_open, handler, bcast, n_msgs>>
llmvars == <<created, provider, gen, built>>
vars == <<segvars, regvars, llmvars>>

(***************************************************************************)
(* The audio stream.  Byte k of a stream is represented by its position k, *)
(* so that a lost, repeated or misplaced byte shows.  stream.read returns  *)
(* the n-th frame: bytes (n-1)*FrameSize+1 .. n*FrameSize.                 *)
(***************************************************************************)
StreamRead(n) == [j \in 1..FrameSize |-> (n - 1) * FrameSize + j]

\* b''.join(frames)
RECURSIVE Join(_)
JoinDropLast(frames) ==
    IF Len(frames) <= 1 THEN <<>>
    ELSE Join(SubSeq(frames, 1, Len(frames) - 1))
Join(frames) ==
    IF frames = <<>> THEN <<>>
    ELSE Head(frames) \o Join(Tail(frames))

\* audio_buffer[-50:]
TrimHead(buf) == SubSeq(buf, 1, TailFrames)
TrimBuffer(buf) ==
    IF Len(buf) <= TailFrames THEN buf
    ELSE SubSeq(buf, Len(buf) - TailFrames + 1, Len(buf))

\* np.frombuffer(data, dtype=np.int16): the samples are signed 16-bit
\* integers.  np.abs of an int16 array is an int16 array: the absolute value
\* is taken modulo 2^16, in two's complement.
INT16_MIN == -32768
INT16_MAX == 32767
Wrap16(x) == ((x + 32768) % 65536) - 32768
Abs16(x) == Wrap16(IF x < 0 THEN 0 - x ELSE x)

\* np.abs(audio_array).mean(): the sum of the absolute values (accumulated
\* in double precision, so without wrap) over the number of samples; the
\* level is kept as that sum and that number.
RECURSIVE SumAbs16(_)
SumAbs16(samples) ==
    IF samples = <<>> THEN 0
    ELSE Abs16(Head(samples)) + SumAbs16(Tail(samples))

AudioLevel(samples) == [sum |-> SumAbs16(samples), n |-> Len(samples)]

\* audio_level < Config.SILENCE_THRESHOLD
IsSilentLevel(level) == level.sum < SILENCE_THRESHOLD * level.n

\* The frames an amplitude is computed of: up to MaxFrameSamples samples
\* drawn from the ends and the middle of the 16-bit range.
MaxFrameSamples == 2
SampleValues ==
    {INT16_MIN, INT16_MIN + 1, 0 - SILENCE_THRESHOLD, -1, 0, 1,
     SILENCE_THRESHOLD - 1, SILENCE_THRESHOLD, INT16_MAX}
AmpFrames ==
    UNION {[1..n -> SampleValues] : n \in 1..MaxFrameSamples}
NoAmp == [called |-> FALSE, samples |-> <<>>, level |-> AudioLevel(<<>>),
          silent |-> FALSE]

\* The amplitude of the frame drawn is computed and compared.
ComputeLevel ==
    /\ ~amp.called
    /\ amp.samples # <<>>
    /\ amp' = [amp EXCEPT !.called = TRUE,
                          !.level = AudioLevel(amp.samples),
                          !.silent = IsSilentLevel(AudioLevel(amp.samples))]
    /\ UNCHANGED <<is_listening, audio_thread, worker, work_queue, in_flight,
                   tape_loud, last_op>>

\* if audio_level < Config.SILENCE_THRESHOLD: silence_counter += 1 / else: 0
CountAlways(counter, level) == counter + 1
NextSilence(counter, level) ==
    IF level < SILENCE_THRESHOLD THEN counter + 1 ELSE 0

\* len(audio_buffer) > 20 and silence_counter > silence_threshold
FlushAtThreshold(buf, counter) ==
    Len(buf) > MinFrames /\ counter >= ThresholdFrames
FlushAnyLength(buf, counter) == counter > ThresholdFrames
ShouldFlush(buf, counter) ==
    Len(buf) > MinFrames /\ counter > ThresholdFrames

\* A thread's pc and locals.  nread is the position of the thread's stream.
\* History fields, read by the properties only: quiet is the number of silent
\* frames read in a row since the last loud frame or flush, last_silent tells
\* whether the frame read last was silent, flushed_at is the stream position
\* of the last flush, buf_period is the listening period (the number of
\* threads started so far) in which the oldest frame read since the last
\* flush was read (0: no frame since).
NoLocals ==
    [pc |-> "unborn", audio_buffer |-> <<>>, silence_counter |-> 0, nread |-> 0,
     quiet |-> 0, last_silent |-> FALSE, flushed_at |-> 0, buf_period |-> 0]

\* What last_op holds: the operation, whether the handler was listening when
\* it began, and the outcome of a transcription.
Op(name, listening, outcome) ==
    [op |-> name, listening |-> listening, outcome |-> outcome]
NoOp == Op("none", FALSE, "none")

AudioInit ==
    /\ is_listening = FALSE
    /\ audio_thread = 0
    /\ worker = [t \in Threads |-> NoLocals]
    /\ work_queue = <<>>
    /\ in_flight = <<>>
    /\ amp = NoAmp
    /\ last_op = NoOp

\* start_listening: a no-op while listening, else a new daemon thread.
StartAlways ==
    /\ audio_thread < MaxThreads
    /\ is_listening' = TRUE
    /\ audio_thread' = audio_thread + 1
    /\ worker' = [worker EXCEPT ![audio_thread + 1].pc = "open"]
    /\ last_op' = Op("start_listening", is_listening, "none")
    /\ UNCHANGED <<work_queue, in_flight, tape_loud, amp>>
StartListening ==
    /\ IF is_listening
       THEN UNCHANGED <<is_listening, audio_thread, worker>>
       ELSE /\ audio_thread < MaxThreads
            /\ is_listening' = TRUE
            /\ audio_thread' = audio_thread + 1
            /\ worker' = [worker EXCEPT ![audio_thread + 1].pc = "open"]
    /\ last_op' = Op("start_listening", is_listening, "none")
    /\ UNCHANGED <<work_queue, in_flight, tape_loud, amp>>

\* stop_listening: clears the flag (the join only waits).
StopListening ==
    /\ is_listening' = FALSE
    /\ last_op' = Op("stop_listening", is_listening, "none")
    /\ UNCHANGED <<audio_thread, worker, work_queue, in_flight, tape_loud, amp>>

\* self.audio.open(...) succeeds: the locals are initialised.
OpenStream(t) ==
    /\ worker[t].pc = "open"
    /\ worker' = [worker EXCEPT ![t] = [NoLocals EXCEPT !.pc = "loop"]]
    /\ UNCHANGED <<is_listening, audio_thread, work_queue, in_flight,
                   tape_loud, amp, last_op>>

\* self.audio.open(...) raises: the outer except logs, the thread ends.
OpenFail(t) ==
    /\ worker[t].pc = "open"
    /\ worker' = [worker EXCEPT ![t] = [NoLocals EXCEPT !.pc = "done"]]
    /\ UNCHANGED <<is_listening, audio_thread, work_queue, in_flight,
                   tape_loud, amp, last_op>>

\* A variant whose loop test ignores the flag.
LoopForever(t) ==
    /\ worker[t].pc = "loop"
    /\ worker' = [worker EXCEPT ![t].pc = "read"]
    /\ UNCHANGED <<is_listening, audio_thread, work_queue, in_flight,
                   tape_loud, amp, last_op>>

\* while self.is_listening: ... finally: stream.close()
LoopCheck(t) ==
    /\ worker[t].pc = "loop"
    /\ IF is_listening
       THEN /\ worker[t].nread < MaxReads
            /\ Len(work_queue) < MaxFlushes
            /\ worker' = [worker EXCEPT ![t].pc = "read"]
       ELSE worker' = [worker EXCEPT ![t] = [NoLocals EXCEPT !.pc = "done"]]
    /\ UNCHANGED <<is_listening, audio_thread, work_queue, in_flight,
                   tape_loud, amp, last_op>>

\* One pass of the loop body: the read returns a frame of amplitude level.
ReadIteration(t, level) ==
    /\ worker[t].pc = "read"
    /\ LET n       == worker[t].nread + 1
           buf     == Append(worker[t].audio_buffer, StreamRead(n))
           counter == NextSilence(worker[t].silence_counter, level)
           flush   == ShouldFlush(buf, counter)
           kept    == IF flush THEN <<>> ELSE buf
       IN  /\ work_queue' = IF flush THEN Append(work_queue, Join(buf))
                                     ELSE work_queue
           /\ worker' = [worker EXCEPT ![t] =
                 [pc |-> "loop",
                  audio_buffer |-> IF Len(kept) > HardCap
                                   THEN TrimBuffer(kept) ELSE kept,
                  silence_counter |-> IF flush THEN 0 ELSE counter,
                  nread |-> n,
                  quiet |-> IF flush \/ level >= SILENCE_THRESHOLD
                            THEN 0 ELSE worker[t].quiet + 1,
                  last_silent |-> level < SILENCE_THRESHOLD,
                  flushed_at |-> IF flush THEN n ELSE worker[t].flushed_at,
                  buf_period |-> IF flush THEN 0
                                 ELSE IF worker[t].buf_period = 0
                                 THEN audio_thread
                                 ELSE worker[t].buf_period]]
    /\ last_op' = Op("read", is_listening, "none")
    /\ UNCHANGED <<is_listening, audio_thread, in_flight, tape_loud, amp>>

\* stream.read raises: logged, time.sleep(0.1), the loop goes on.
ReadErrorStops(t) ==
    /\ worker[t].pc = "read"
    /\ worker' = [worker EXCEPT ![t] = [NoLocals EXCEPT !.pc = "done"]]
    /\ last_op' = Op("read_error", is_listening, "none")
    /\ UNCHANGED <<is_listening, audio_thread, work_queue, in_flight,
                   tape_loud, amp>>
ReadError(t) ==
    /\ worker[t].pc = "read"
    /\ worker' = [worker EXCEPT ![t].pc = "loop"]
    /\ last_op' = Op("read_error", is_listening, "none")
    /\ UNCHANGED <<is_listening, audio_thread, work_queue, in_flight,
                   tape_loud, amp>>

(***************************************************************************)
(* The session registry (websocket_manager.py) and the LLM client factory  *)
(* (llm_client.py).  A model identifier 'provider/name' is the pair        *)
(* <<provider, name>>; an identifier without '/' has one element, and a    *)
(* missing or empty one has none.                                          *)
(***************************************************************************)
WS == 1..MaxConns
Bs == 1..MaxBroadcasts
\* A handle_transcription call belongs to the endpoint of websocket o
\* (o <= MaxConns) or to broadcast o - MaxConns.
Owners == 1..(MaxConns + MaxBroadcasts)
BOwner(b) == MaxConns + b

GroqModel == <<"groq", "llama-3.1-8b-instant">>
OpenAIModel == <<"openai", "gpt-3.5-turbo">>
GeminiModel == <<"gemini", "gemini-2.5-flash-preview-05-20">>
OllamaModel == <<"ollama", "llama3.2:1b">>
CohereModel == <<"cohere", "command-light">>
HuggingFaceModel == <<"huggingface", "microsoft/DialoGPT-medium">>

\* Config.AVAILABLE_MODELS.values()
AVAILABLE_MODELS ==
    {GroqModel, OpenAIModel, GeminiModel, OllamaModel, CohereModel}
DEFAULT_MODEL_ID == GroqModel
LLM_PROVIDER == "groq"
\* The providers of Config.MODEL_CONFIG.
ConfiguredProviders == {"groq", "openai", "gemini", "ollama", "cohere"}
\* The providers create_llm_client asks a key for.
KeyProviders == {"openai", "groq", "gemini", "cohere", "huggingface"}
\* if current_time - last_switch_time < 2.0
Cooldown == 2

\* What a set_model message may carry in "model".
RequestedModels ==
    AVAILABLE_MODELS \cup {HuggingFaceModel, <<"gpt-4">>, <<>>}
\* What a text_input message or a transcription may carry.
Texts == {<<"hello">>}
\* The fragments a reply stream may yield.
Chunks == {<<"ok">>}
ReqChunks == {<<"a">>, <<"b", "c">>}

NoClient == [cls |-> "none", model |-> "unknown"]
NoConfig == "none"

\* Config.get_model_config: the key of MODEL_CONFIG that applies.
GetModelConfig(id) ==
    IF Len(id) >= 2 /\ id[1] \in ConfiguredProviders THEN id[1] ELSE "default"

\* create_llm_client: a client, or the ValueError it raises.
CreateUnchecked(id) ==
    IF Len(id) < 2
    THEN [ok |-> FALSE, client |-> NoClient, error |-> "invalid format"]
    ELSE [ok |-> TRUE, client |-> [cls |-> id[1], model |-> id[2]],
          error |-> ""]
CreateClient(id) ==
    IF id \notin AVAILABLE_MODELS
    THEN [ok |-> FALSE, client |-> NoClient, error |-> "not allowed"]
    ELSE IF Len(id) < 2
    THEN [ok |-> FALSE, client |-> NoClient, error |-> "invalid format"]
    ELSE IF id[1] \in KeyProviders /\ id[1] \notin api_keys
    THEN [ok |-> FALSE, client |-> NoClient, error |-> "key not set"]
    ELSE IF id[1] \in KeyProviders \cup {"ollama"}
    THEN [ok |-> TRUE, client |-> [cls |-> id[1], model |-> id[2]],
          error |-> ""]
    ELSE [ok |-> FALSE, client |-> NoClient, error |-> "unknown provider"]

\* create_llm_client_legacy
CreateLegacy ==
    CASE LLM_PROVIDER = "openai" -> CreateClient(OpenAIModel)
      [] LLM_PROVIDER = "groq" -> CreateClient(GroqModel)
      [] LLM_PROVIDER = "gemini" -> CreateClient(GeminiModel)
      [] LLM_PROVIDER = "ollama" -> CreateClient(OllamaModel)
      [] LLM_PROVIDER = "cohere" -> CreateClient(CohereModel)
      [] LLM_PROVIDER = "huggingface" -> CreateClient(HuggingFaceModel)
      [] OTHER -> CreateClient(DEFAULT_MODEL_ID)

\* send_personal_message: the event reaches the peer unless the send fails,
\* and a failed send is only logged.  Of the events a peer received, sent keeps
\* their number and the last one.
Event(type, content) == [type |-> type, content |-> content]
NoEvent == Event("none", <<>>)

SendToAll(log, ws, ev) ==
    [w \in WS |-> IF client_open[w]
                  THEN [n |-> log[w].n + 1, last |-> ev] ELSE log[w]]
SendTo(log, ws, ev) ==
    IF client_open[ws]
    THEN [log EXCEPT ![ws] = [n |-> @.n + 1, last |-> ev]]
    ELSE log

\* The list objects.  heap[i] is the content of list i; a list no dictionary
\* entry and no running call refers to is reclaimed (it reads as empty and its
\* number is free again).
ListIds == 1..(MaxConns + MaxConns + MaxBroadcasts + 1)
Referenced(dict, calls) ==
    {dict[w] : w \in WS} \cup {calls[o].hist : o \in Owners}
\* [] : the number of a fresh empty list.
NewList(dict, calls) ==
    CHOOSE i \in ListIds :
        /\ i \notin Referenced(dict, calls)
        /\ \A j \in ListIds : j < i => j \in Referenced(dict, calls)
Collect(h, dict, calls) ==
    [i \in ListIds |-> IF i \in Referenced(dict, calls) THEN h[i] ELSE <<>>]

\* A handle_transcription call of an owner.  events is what the call has
\* passed to send_personal_message so far, in order.
IdleHandler ==
    [pc |-> "idle", ws |-> 0, text |-> <<>>, hist |-> 0, llm |-> NoClient,
     response |-> <<>>, chunks |-> 0, thread |-> "none", events |-> <<>>]
\* History fields, read by the properties only and kept while the broadcast
\* runs: called is the websockets handle_transcription was called for, in
\* call order; owed is the websockets that were connected when the broadcast
\* began and for which it was not called yet.
NoBroadcast == [state |-> "none", text |-> <<>>, idx |-> 0, thread |-> "none",
                loop |-> "none", owed |-> {}, called |-> <<>>]

RegInit ==
    /\ clock = Cooldown
    /\ active_connections = <<>>
    /\ conversation_histories = [w \in WS |-> 0]
    /\ heap = [i \in ListIds |-> <<>>]
    /\ connection_llm_clients = [w \in WS |-> NoClient]
    /\ connection_model_configs = [w \in WS |-> NoConfig]
    /\ connection_audio_handlers = {}
    /\ last_model_switch = [w \in WS |-> 0]
    /\ sent = [w \in WS |-> [n |-> 0, last |-> NoEvent]]
    /\ endpoint = [w \in WS |-> "new"]
    /\ client_open = [w \in WS |-> FALSE]
    /\ handler = [o \in Owners |-> IdleHandler]
    /\ bcast = [b \in Bs |-> NoBroadcast]
    /\ n_msgs = 0

\* The event loop's clock advances.
Tick ==
    /\ clock < Cooldown + MaxTicks
    /\ clock' = clock + 1
    /\ UNCHANGED <<api_keys, active_connections, conversation_histories, heap,
                   connection_llm_clients, connection_model_configs,
                   connection_audio_handlers, last_model_switch, sent,
                   endpoint, client_open, handler, bcast, n_msgs>>

\* websocket_endpoint: manager.connect(websocket).  Websockets are numbered in
\* the order they connect.
Connect(ws) ==
    /\ endpoint[ws] = "new"
    /\ \A v \in WS : v < ws => endpoint[v] # "new"
    /\ active_connections' = Append(active_connections, ws)
    /\ conversation_histories' =
          [conversation_histories EXCEPT
              ![ws] = NewList(conversation_histories, handler)]
    /\ UNCHANGED heap
    /\ LET made   == CreateClient(DEFAULT_MODEL_ID)
           legacy == CreateLegacy
       IN  IF made.ok
           THEN /\ connection_llm_clients' =
                      [connection_llm_clients EXCEPT ![ws] = made.client]
                /\ connection_model_configs' =
                      [connection_model_configs EXCEPT
                          ![ws] = GetModelConfig(DEFAULT_MODEL_ID)]
                /\ sent' = [sent EXCEPT ![ws] =
                      [n |-> @.n + 1,
                       last |-> Event("available_models", DEFAULT_MODEL_ID)]]
                /\ endpoint' = [endpoint EXCEPT ![ws] = "recv"]
                /\ client_open' = [client_open EXCEPT ![ws] = TRUE]
           ELSE IF legacy.ok
           THEN /\ connection_llm_clients' =
                      [connection_llm_clients EXCEPT ![ws] = legacy.client]
                /\ connection_model_configs' =
                      [connection_model_configs EXCEPT
                          ![ws] = GetModelConfig(DEFAULT_MODEL_ID)]
                /\ endpoint' = [endpoint EXCEPT ![ws] = "recv"]
                /\ client_open' = [client_open EXCEPT ![ws] = TRUE]
                /\ UNCHANGED sent
           ELSE \* the ValueError leaves connect and ends the endpoint
                /\ endpoint' = [endpoint EXCEPT ![ws] = "crashed"]
                /\ UNCHANGED <<connection_llm_clients,
                               connection_model_configs, sent, client_open>>
    /\ UNCHANGED <<clock, api_keys, connection_audio_handlers,
                   last_model_switch, handler, bcast, n_msgs>>

\* A variant in which a peer's leaving cancels the calls streaming to it.
ClientCloseCancels(ws) ==
    /\ client_open[ws]
    /\ client_open' = [client_open EXCEPT ![ws] = FALSE]
    /\ handler' = [o \in Owners |->
          IF handler[o].pc = "stream" /\ handler[o].ws = ws
          THEN IdleHandler ELSE handler[o]]
    /\ UNCHANGED <<clock, api_keys, active_connections,
                   conversation_histories, heap, connection_llm_clients,
                   connection_model_configs, connection_audio_handlers,
                   last_model_switch, sent, endpoint, bcast, n_msgs>>

\* The peer closes the connection: from now on sends to it fail.
ClientClose(ws) ==
    /\ client_open[ws]
    /\ client_open' = [client_open EXCEPT ![ws] = FALSE]
    /\ UNCHANGED <<clock, api_keys, active_connections,
                   conversation_histories, heap, connection_llm_clients,
                   connection_model_configs, connection_audio_handlers,
                   last_model_switch, sent, endpoint, handler, bcast, n_msgs>>

\* disconnect(websocket): every entry of the websocket is removed.
RemoveFirst(seq, x) ==
    IF \E i \in 1..Len(seq) : seq[i] = x
    THEN LET i == CHOOSE k \in 1..Len(seq) :
                    seq[k] = x /\ \A j \in 1..(k - 1) : seq[j] # x
         IN  SubSeq(seq, 1, i - 1) \o SubSeq(seq, i + 1, Len(seq))
    ELSE seq

\* receive_text raises WebSocketDisconnect: manager.disconnect(websocket).
Disconnect(ws) ==
    /\ endpoint[ws] = "recv"
    /\ ~client_open[ws]
    /\ active_connections' = RemoveFirst(active_connections, ws)
    /\ conversation_histories' = [conversation_histories EXCEPT ![ws] = 0]
    /\ heap' = Collect(heap, conversation_histories', handler)
    /\ connection_audio_handlers' = connection_audio_handlers \ {ws}
    /\ connection_llm_clients' =
          [connection_llm_clients EXCEPT ![ws] = NoClient]
    /\ connection_model_configs' =
          [connection_model_configs EXCEPT ![ws] = NoConfig]
    /\ endpoint' = [endpoint EXCEPT ![ws] = "closed"]
    /\ UNCHANGED <<clock, api_keys, last_model_switch, sent,
                   client_open, handler, bcast, n_msgs>>

\* handle_message, 'clear_history'.
ClearAll(ws) ==
    [w \in WS |-> IF conversation_histories[w] = 0 THEN 0
                  ELSE NewList(conversation_histories, handler)]
ClearedHistories(ws) ==
    [conversation_histories EXCEPT
        ![ws] = NewList(conversation_histories, handler)]
ClearHistory(ws) ==
    /\ endpoint[ws] = "recv"
    /\ client_open[ws]
    /\ n_msgs < MaxMsgs
    /\ n_msgs' = n_msgs + 1
    /\ conversation_histories' = ClearedHistories(ws)
    /\ heap' = Collect(heap, conversation_histories', handler)
    /\ sent' = SendTo(sent, ws, Event("history_cleared", <<>>))
    /\ UNCHANGED <<clock, api_keys, active_connections,
                   connection_llm_clients, connection_model_configs,
                   connection_audio_handlers, last_model_switch, endpoint,
                   client_open, handler, bcast>>

\* Config.SUPPORTED_LANGUAGES, by code.
SUPPORTED_LANGUAGES == {"en-US", "pt-BR"}

\* The languages a client asks for.
Languages == SUPPORTED_LANGUAGES \cup {"fr-FR"}

\* The methods class AudioHandler defines.
AudioHandlerMethods ==
    {"__init__", "_find_system_audio_device", "start_listening",
     "stop_listening", "_listen_continuously", "_process_audio_buffer",
     "_safe_callback", "__del__"}

\* main.audio_handler is the AudioHandler made at startup.
AudioHandlerAvailable == TRUE

\* The attribute lookup global_audio_handler.set_language: a call when the
\* class defines the method, AttributeError otherwise.
Lookup(method) ==
    IF method \in AudioHandlerMethods THEN "bound" ELSE "AttributeError"

\* The event handle_language_change sends; success is what a call of
\* set_language returned.
LanguageReply(language, success) ==
    IF ~AudioHandlerAvailable
    THEN Event("error", "Audio handler not available")
    ELSE IF Lookup("set_language") = "AttributeError"
    THEN Event("error", "Error changing language")
    ELSE IF success
    THEN Event("language_changed", language)
    ELSE Event("error", "Unsupported language")

\* handle_message, 'set_language': handle_language_change.
SetLanguage(ws, language) ==
    /\ endpoint[ws] = "recv"
    /\ client_open[ws]
    /\ n_msgs < MaxMsgs
    /\ n_msgs' = n_msgs + 1
    /\ \E success \in BOOLEAN :
          sent' = SendTo(sent, ws, LanguageReply(language, success))
    /\ UNCHANGED <<clock, api_keys, active_connections,
                   conversation_histories, heap, connection_llm_clients,
                   connection_model_configs, connection_audio_handlers,
                   last_model_switch, endpoint, client_open, handler, bcast>>

\* handle_message, 'start_listening': start_audio_listening only sends
\* 'listening_started'.
StartAudioListening(ws) ==
    /\ endpoint[ws] = "recv"
    /\ client_open[ws]
    /\ n_msgs < MaxMsgs
    /\ n_msgs' = n_msgs + 1
    /\ sent' = SendTo(sent, ws, Event("listening_started", <<>>))
    /\ UNCHANGED <<clock, api_keys, active_connections,
                   conversation_histories, heap, connection_llm_clients,
                   connection_model_configs, connection_audio_handlers,
                   last_model_switch, endpoint, client_open, handler, bcast>>

\* handle_message, 'stop_listening': stop_audio_listening only sends
\* 'listening_stopped'.
StopAudioClears(ws) ==
    /\ endpoint[ws] = "recv"
    /\ client_open[ws]
    /\ n_msgs < MaxMsgs
    /\ n_msgs' = n_msgs + 1
    /\ sent' = SendTo(sent, ws, Event("listening_stopped", <<>>))
    /\ connection_llm_clients' =
          [connection_llm_clients EXCEPT ![ws] = NoClient]
    /\ UNCHANGED <<clock, api_keys, active_connections,
                   conversation_histories, heap,
                   connection_model_configs, connection_audio_handlers,
                   last_model_switch, endpoint, client_open, handler, bcast>>
StopAudioListening(ws) ==
    /\ endpoint[ws] = "recv"
    /\ client_open[ws]
    /\ n_msgs < MaxMsgs
    /\ n_msgs' = n_msgs + 1
    /\ sent' = SendTo(sent, ws, Event("listening_stopped", <<>>))
    /\ UNCHANGED <<clock, api_keys, active_connections,
                   conversation_histories, heap, connection_llm_clients,
                   connection_model_configs, connection_audio_handlers,
                   last_model_switch, endpoint, client_open, handler, bcast>>

\* not new_model_id or new_model_id not in Config.AVAILABLE_MODELS.values()
AnyModelAllowed(id) == Len(id) >= 2
ModelAllowed(id) == id # <<>> /\ id \in AVAILABLE_MODELS

\* current_time - last_switch_time < 2.0
NeverInCooldown(ws) == FALSE
InCooldown(ws) == clock - last_model_switch[ws] < Cooldown

\* handle_message, 'set_model': handle_model_change.
SetModel(ws, id) ==
    /\ endpoint[ws] = "recv"
    /\ client_open[ws]
    /\ n_msgs < MaxMsgs
    /\ n_msgs' = n_msgs + 1
    /\ IF ~ModelAllowed(id)
       THEN /\ sent' = SendTo(sent, ws,
                         Event("error", "Invalid or disallowed model"))
            /\ UNCHANGED <<last_model_switch, connection_llm_clients,
                           connection_model_configs>>
       ELSE IF InCooldown(ws)
       THEN /\ sent' = SendTo(sent, ws,
                         Event("error", "Model switching too frequently"))
            /\ UNCHANGED <<last_model_switch, connection_llm_clients,
                           connection_model_configs>>
       ELSE /\ last_model_switch' = [last_model_switch EXCEPT ![ws] = clock]
            /\ LET made == CreateClient(id)
                   old  == connection_llm_clients[ws].model
               IN  IF made.ok
                   THEN /\ connection_llm_clients' =
                              [connection_llm_clients EXCEPT
                                  ![ws] = made.client]
                        /\ connection_model_configs' =
                              [connection_model_configs EXCEPT
                                  ![ws] = GetModelConfig(id)]
                        /\ sent' = SendTo(sent, ws,
                              Event("model_changed",
                                    <<old, id, GetModelConfig(id)>>))
                   ELSE \* except ValueError
                        /\ sent' = SendTo(sent, ws,
                              Event("error", "Model switch failed"))
                        /\ UNCHANGED <<connection_llm_clients,
                                       connection_model_configs>>
    /\ UNCHANGED <<clock, api_keys, active_connections,
                   conversation_histories, heap, connection_audio_handlers,
                   endpoint, client_open, handler, bcast>>

\* handle_transcription is called: it runs up to its first await, the send
\* of the 'transcription' event.
StartedSilently(ws, text, thread) ==
    [IdleHandler EXCEPT !.pc = "append", !.ws = ws, !.text = text,
                        !.thread = thread]
StartedHandler(ws, text, thread) ==
    [IdleHandler EXCEPT !.pc = "append", !.ws = ws, !.text = text,
                        !.thread = thread,
                        !.events = <<Event("transcription", text)>>]

\* handle_message, 'text_input': handle_transcription(websocket, text) is
\* awaited by the endpoint, in the event-loop thread.
TextInput(ws, text) ==
    /\ endpoint[ws] = "recv"
    /\ client_open[ws]
    /\ n_msgs < MaxMsgs
    /\ n_msgs' = n_msgs + 1
    /\ endpoint' = [endpoint EXCEPT ![ws] = "busy"]
    /\ handler' = [handler EXCEPT ![ws] = StartedHandler(ws, text, "loop")]
    /\ sent' = SendTo(sent, ws, Event("transcription", text))
    /\ UNCHANGED <<clock, api_keys, active_connections,
                   conversation_histories, heap, connection_llm_clients,
                   connection_model_configs, connection_audio_handlers,
                   last_model_switch, client_open, bcast>>

\* asyncio.get_running_loop() in a thread: the server's loop runs in the
\* event-loop thread only; elsewhere the call raises RuntimeError.
RunningLoop(thread) == IF thread = "loop" THEN "server" ELSE "none"

\* sync_on_transcription called in a thread: where on_transcription (the
\* broadcast) then runs.  run_coroutine_threadsafe hands it to the running
\* loop; asyncio.run runs it in the calling thread on a loop of its own.
SyncOnTranscription(thread) ==
    IF RunningLoop(thread) # "none"
    THEN [thread |-> "loop", loop |-> RunningLoop(thread)]
    ELSE [thread |-> thread, loop |-> "new"]

\* _safe_callback called in a thread; on_transcription is the plain function
\* sync_on_transcription, so it is called via call_soon_threadsafe when a loop
\* runs in the thread, and directly otherwise.
SafeCallback(thread) ==
    IF RunningLoop(thread) # "none"
    THEN SyncOnTranscription("loop")
    ELSE SyncOnTranscription(thread)

\* _process_audio_buffer runs in a thread of the executor's pool.
ExecutorThread == "pool"

\* _process_audio_buffer got a non-blank text: _safe_callback(text) starts
\* broadcast_transcription(text).
DeliverTranscription(b, text) ==
    /\ bcast[b].state = "none"
    /\ \A v \in Bs : v < b => bcast[v].state # "none"
    /\ LET where == SafeCallback(ExecutorThread)
       IN  bcast' = [bcast EXCEPT ![b] =
              [state |-> "running", text |-> text, idx |-> 0,
               thread |-> where.thread, loop |-> where.loop,
               owed |-> {active_connections[i] :
                           i \in 1..Len(active_connections)},
               called |-> <<>>]]
    /\ UNCHANGED <<clock, api_keys, active_connections,
                   conversation_histories, heap, connection_llm_clients,
                   connection_model_configs, connection_audio_handlers,
                   last_model_switch, sent, endpoint, client_open, handler,
                   n_msgs>>

\* What recognize_google may do with an utterance: return a text, raise
\* UnknownValueError (no speech), raise RequestError (provider or network).
BlankTexts == {<<>>, <<" ">>}
Recognitions ==
    {[kind |-> "text", text |-> t] : t \in Texts \cup BlankTexts}
    \cup {[kind |-> "unknown_value", text |-> <<>>],
          [kind |-> "request_error", text |-> <<>>]}

\* not text.strip()
NeverBlank(text) == FALSE
IsBlank(text) == \A i \in 1..Len(text) : text[i] = " "

\* ThreadPoolExecutor(max_workers=2): the pool runs at most max_workers
\* threads; a free one takes the oldest submitted utterance and calls
\* _process_audio_buffer with it.
MAX_WORKERS == 2
PoolUnbounded(running) == TRUE
PoolHasRoom(running) == Len(running) < MAX_WORKERS

PoolTake ==
    /\ work_queue # <<>>
    /\ PoolHasRoom(in_flight)
    /\ in_flight' = Append(in_flight, Head(work_queue))
    /\ work_queue' = Tail(work_queue)
    /\ UNCHANGED <<is_listening, audio_thread, worker, tape_loud, amp, last_op>>

\* _process_audio_buffer returns in one of the pool's threads: the utterance
\* was transcribed (or not); a non-blank text goes to _safe_callback.
ProcessAudioBuffer(r) ==
    /\ \E i \in 1..Len(in_flight) :
          in_flight' = SubSeq(in_flight, 1, i - 1)
                          \o SubSeq(in_flight, i + 1, Len(in_flight))
    /\ last_op' = Op("transcribe", is_listening, r)
    /\ UNCHANGED <<is_listening, audio_thread, worker, work_queue,
                   tape_loud, amp>>
    /\ IF r.kind = "text" /\ ~IsBlank(r.text)
       THEN \E b \in Bs : DeliverTranscription(b, r.text)
       ELSE UNCHANGED regvars

\* get_status: what /status reports.
GetStatus ==
    [status |-> "running", llm_provider |-> LLM_PROVIDER,
     active_connections |-> Len(active_connections),
     audio_available |-> TRUE, audio_listening |-> is_listening]

\* broadcast_transcription: for connection in manager.active_connections:
\* await manager.handle_transcription(connection, text).  The list iterator
\* holds an index into the live list; each call runs up to its first await.
BroadcastNext(b) ==
    /\ bcast[b].state = "running"
    /\ handler[BOwner(b)].pc = "idle"
    /\ IF bcast[b].idx < Len(active_connections)
       THEN LET ws == active_connections[bcast[b].idx + 1]
            IN  /\ bcast' = [bcast EXCEPT ![b].idx = @ + 1,
                                          ![b].owed = @ \ {ws},
                                          ![b].called = Append(@, ws)]
                /\ handler' = [handler EXCEPT ![BOwner(b)] =
                      StartedHandler(ws, bcast[b].text, bcast[b].thread)]
                /\ sent' = SendTo(sent, ws,
                                  Event("transcription", bcast[b].text))
       ELSE /\ bcast' = [bcast EXCEPT ![b].state = "done",
                                      ![b].owed = {},
                                      ![b].called = <<>>]
            /\ UNCHANGED <<handler, sent>>
    /\ UNCHANGED <<clock, api_keys, active_connections,
                   conversation_histories, heap, connection_llm_clients,
                   connection_model_configs, connection_audio_handlers,
                   last_model_switch, endpoint, client_open, n_msgs>>

(***************************************************************************)
(* handle_transcription, one action per stretch between two awaits.        *)
(***************************************************************************)
\* The call of owner o returns: an endpoint goes back to receive_text.
Returned(o) ==
    IF o \in WS THEN [endpoint EXCEPT ![o] = "recv"] ELSE endpoint

\* {"role": "user", "content": transcribed_text} and
\* {"role": "assistant", "content": response_content}
UserAsAssistant(text) == [role |-> "assistant", content |-> text]
UserEntry(text) == [role |-> "user", content |-> text]
AssistantAsUser(content) == [role |-> "user", content |-> content]
AssistantEntry(content) == [role |-> "assistant", content |-> content]

\* conversation_history = self.conversation_histories.get(websocket, []);
\* the user entry is appended to that list object; 'thinking' is sent.
HandleAppendUser(o) ==
    /\ handler[o].pc = "append"
    /\ LET ws    == handler[o].ws
           found == conversation_histories[ws]
           list  == IF found = 0
                    THEN NewList(conversation_histories, handler) ELSE found
       IN  /\ heap' = [heap EXCEPT ![list] =
                 Append(@, UserEntry(handler[o].text))]
           /\ handler' = [handler EXCEPT
                 ![o].pc = "client", ![o].hist = list,
                 ![o].events = Append(@, Event("status", "thinking"))]
           /\ sent' = SendTo(sent, ws, Event("status", "thinking"))
    /\ UNCHANGED <<clock, api_keys, active_connections,
                   conversation_histories, connection_llm_clients,
                   connection_model_configs, connection_audio_handlers,
                   last_model_switch, endpoint, client_open, bcast, n_msgs>>

\* llm_client = self.connection_llm_clients.get(websocket), or the legacy
\* client, which is stored; a ValueError of the factory ends the call with an
\* 'error' event.
HandleGetClient(o) ==
    /\ handler[o].pc = "client"
    /\ LET ws     == handler[o].ws
           found  == connection_llm_clients[ws]
           legacy == CreateLegacy
       IN  IF found # NoClient
           THEN /\ handler' = [handler EXCEPT ![o].pc = "stream",
                                              ![o].llm = found]
                /\ UNCHANGED <<connection_llm_clients, sent, endpoint, heap>>
           ELSE IF legacy.ok
           THEN /\ handler' = [handler EXCEPT ![o].pc = "stream",
                                              ![o].llm = legacy.client]
                /\ connection_llm_clients' =
                      [connection_llm_clients EXCEPT ![ws] = legacy.client]
                /\ UNCHANGED <<sent, endpoint, heap>>
           ELSE /\ handler' = [handler EXCEPT ![o] = IdleHandler]
                /\ heap' = Collect(heap, conversation_histories, handler')
                /\ sent' = SendTo(sent, ws,
                                  Event("error", "Error processing request"))
                /\ endpoint' = Returned(o)
                /\ UNCHANGED connection_llm_clients
    /\ UNCHANGED <<clock, api_keys, active_connections,
                   conversation_histories, connection_model_configs,
                   connection_audio_handlers, last_model_switch, client_open,
                   bcast, n_msgs>>

\* The stream yields a fragment: response_content += chunk; 'response_chunk'.
Overwrite(response_content, chunk) == chunk
Accumulate(response_content, chunk) == response_content \o chunk

\* A variant that looks the session's client up again at every fragment.
HandleChunkRefetch(o, chunk) ==
    /\ handler[o].pc = "stream"
    /\ handler' = [handler EXCEPT
          ![o].llm = connection_llm_clients[handler[o].ws],
          ![o].response = Accumulate(@, chunk),
          ![o].chunks = @ + 1,
          ![o].events = Append(@, Event("response_chunk",
              <<chunk, Accumulate(handler[o].response, chunk)>>))]
    /\ sent' = SendTo(sent, handler[o].ws,
          Event("response_chunk",
                <<chunk, Accumulate(handler[o].response, chunk)>>))
    /\ UNCHANGED <<clock, api_keys, active_connections,
                   conversation_histories, heap, connection_llm_clients,
                   connection_model_configs, connection_audio_handlers,
                   last_model_switch, endpoint, client_open, bcast, n_msgs>>

\* async for chunk in llm_client.get_streaming_response(...): llm_client is
\* the local bound before the loop.
HandleChunk(o, chunk) ==
    /\ handler[o].pc = "stream"
    /\ handler' = [handler EXCEPT
          ![o].response = Accumulate(@, chunk),
          ![o].chunks = @ + 1,
          ![o].events = Append(@, Event("response_chunk",
              <<chunk, Accumulate(handler[o].response, chunk)>>))]
    /\ sent' = SendTo(sent, handler[o].ws,
          Event("response_chunk",
                <<chunk, Accumulate(handler[o].response, chunk)>>))
    /\ UNCHANGED <<clock, api_keys, active_connections,
                   conversation_histories, heap, connection_llm_clients,
                   connection_model_configs, connection_audio_handlers,
                   last_model_switch, endpoint, client_open, bcast, n_msgs>>

\* The stream ends: the assistant entry is appended to the list object, the
\* list is stored under the websocket, 'response_complete' is sent.
HandleFinish(o) ==
    /\ handler[o].pc = "stream"
    /\ handler' = [handler EXCEPT ![o] = IdleHandler]
    /\ LET ws == handler[o].ws
       IN  /\ conversation_histories' =
                 [conversation_histories EXCEPT ![ws] = handler[o].hist]
           /\ heap' = Collect(
                 [heap EXCEPT ![handler[o].hist] =
                     Append(@, AssistantEntry(handler[o].response))],
                 conversation_histories', handler')
           /\ sent' = SendTo(sent, ws,
                 Event("response_complete", handler[o].response))
    /\ endpoint' = Returned(o)
    /\ UNCHANGED <<clock, api_keys, active_connections,
                   connection_llm_clients, connection_model_configs,
                   connection_audio_handlers, last_model_switch, client_open,
                   bcast, n_msgs>>

(***************************************************************************)
(* The LLM clients (llm_client.py).  A text is a sequence of tokens, " "   *)
(* being white space.  A provider's answer to a streaming request is a     *)
(* sequence of transport items (deltas, or lines of the HTTP body); the    *)
(* answer of HuggingFace is one text.                                      *)
(***************************************************************************)
NoCreated ==
    [called |-> FALSE, id |-> <<>>,
     result |-> [ok |-> FALSE, client |-> NoClient, error |-> ""]]

\* A call of the factory with any identifier.
Create(id) ==
    /\ created' = [called |-> TRUE, id |-> id, result |-> CreateClient(id)]
    /\ UNCHANGED <<provider, gen, built>>

\* BaseLLMClient._build_messages.  conversation_history[-10:] is the last 10
\* entries, or all of them when there are fewer.
HISTORY_WINDOW == 10
SystemMessage == [role |-> "system", content |-> <<"system prompt">>]

WholeList(seq, n) == seq
LastN(seq, n) ==
    IF Len(seq) <= n THEN seq ELSE SubSeq(seq, Len(seq) - n + 1, Len(seq))

BuildMessages(text, conversation_history) ==
    LET messages == <<SystemMessage>>
        extended == IF conversation_history # <<>>
                    THEN messages \o LastN(conversation_history,
                                           HISTORY_WINDOW)
                    ELSE messages
    IN  Append(extended, [role |-> "user", content |-> text])

\* The arguments of a call: a text, and a history of up to MaxHistory entries
\* of alternating roles that differ from one another.
MaxHistory == 12
EntryNames ==
    <<"e1", "e2", "e3", "e4", "e5", "e6", "e7", "e8", "e9", "e10", "e11",
      "e12", "e13", "e14">>
BuildTexts == {<<"hello">>, <<"e1">>, <<>>}
BuildHistories ==
    {[i \in 1..n |->
         [role |-> IF i % 2 = first THEN "user" ELSE "assistant",
          content |-> <<EntryNames[i]>>]] :
       n \in 0..MaxHistory, first \in {0, 1}}

NoBuilt == [called |-> FALSE, text |-> <<>>, history |-> <<>>,
            messages |-> <<>>]

\* A call of _build_messages with the arguments drawn.
BuildCall ==
    /\ ~built.called
    /\ built' = [built EXCEPT
          !.called = TRUE,
          !.messages = BuildMessages(built.text, built.history)]
    /\ UNCHANGED <<created, provider, gen>>

Bindings == {"openai", "groq", "gemini", "ollama", "cohere", "huggingface"}
\* The bindings that call an SDK, which raises on a non-success status.
SdkBindings == {"openai", "groq", "gemini"}
\* The bindings that read the HTTP body line by line.
LineBindings == {"ollama", "cohere"}

ProviderName(b) ==
    CASE b = "openai" -> "OpenAI"
      [] b = "groq" -> "Groq"
      [] b = "gemini" -> "Gemini"
      [] b = "ollama" -> "Ollama"
      [] b = "cohere" -> "Cohere"
      [] b = "huggingface" -> "HuggingFace"

\* f"<Provider> Error: {str(e)}"
ErrorFragment(b) == <<ProviderName(b), " Error: ", "message">>
IsErrorFragment(b, f) ==
    Len(f) = 3 /\ f[1] = ProviderName(b) /\ f[2] = " Error: "

\* Transport items: a delta or line carrying text, a JSON line that carries
\* none (no 'response' key, another event_type), a line that is not JSON.
ItemTexts == {<<>>, <<"a">>, <<"b">>}
TextItem(t) == [json |-> TRUE, has |-> TRUE, text |-> t]
OtherItem == [json |-> TRUE, has |-> FALSE, text |-> <<>>]
GarbageItem == [json |-> FALSE, has |-> FALSE, text |-> <<>>]
StreamItems(b) ==
    IF b \in LineBindings
    THEN {TextItem(t) : t \in ItemTexts} \cup {OtherItem, GarbageItem}
    ELSE {TextItem(t) : t \in ItemTexts}
ReplyChars == {"a", " "}

SeqsUpTo(S, n) == UNION {[1..k -> S] : k \in 0..n}

\* What a provider may do with one request: answer (failure "none"), refuse
\* the connection, answer with a non-success HTTP status, or break off
\* after the items.
Providers ==
    {[binding |-> b, failure |-> f, items |-> i, text |-> <<>>] :
        b \in Bindings \ {"huggingface"}, f \in {"none", "midstream"},
        i \in SeqsUpTo({TextItem(t) : t \in ItemTexts} \cup
                       {OtherItem, GarbageItem}, MaxItems)}
    \cup
    {[binding |-> b, failure |-> "status", items |-> i, text |-> <<>>] :
        b \in LineBindings,
        i \in SeqsUpTo({OtherItem, GarbageItem}, MaxItems)}
    \cup
    {[binding |-> b, failure |-> f, items |-> <<>>, text |-> <<>>] :
        b \in Bindings, f \in {"connect", "status"}}
    \cup
    {[binding |-> "huggingface", failure |-> "none", items |-> <<>>,
      text |-> t] : t \in SeqsUpTo(ReplyChars, MaxReplyLen)}

NoProvider ==
    [binding |-> "none", failure |-> "none", items |-> <<>>, text |-> <<>>]
NoGen == [pc |-> "idle", pos |-> 0, words |-> <<>>, yielded |-> <<>>]

LLMIdle ==
    /\ created = NoCreated /\ provider = NoProvider /\ gen = NoGen
    /\ built = NoBuilt

\* str.split(): the maximal runs of tokens that are not white space.
RECURSIVE SplitFrom(_, _, _)
SplitFrom(text, word, words) ==
    IF text = <<>>
    THEN IF word = <<>> THEN words ELSE Append(words, word)
    ELSE IF Head(text) = " "
    THEN SplitFrom(Tail(text), <<>>,
                   IF word = <<>> THEN words ELSE Append(words, word))
    ELSE SplitFrom(Tail(text), Append(word, Head(text)), words)
Split(text) == SplitFrom(text, <<>>, <<>>)

\* The concatenation of a sequence of texts.
RECURSIVE ConcatAll(_)
ConcatAll(texts) ==
    IF texts = <<>> THEN <<>> ELSE Head(texts) \o ConcatAll(Tail(texts))

\* The text of the provider's whole reply.
ReplyText ==
    IF provider.binding = "huggingface" THEN provider.text
    ELSE ConcatAll([k \in 1..Len(provider.items) |-> provider.items[k].text])

\* The request is made: the SDK call, session.post, or the whole HuggingFace
\* exchange up to response_text.split().
StreamRequest ==
    /\ gen.pc = "request"
    /\ LET b == provider.binding
           f == provider.failure
       IN  IF f = "connect" \/ (f = "status" /\ b \in SdkBindings)
           THEN gen' = [gen EXCEPT !.pc = "done",
                                   !.yielded = Append(@, ErrorFragment(b))]
           ELSE IF b = "huggingface"
           THEN IF f = "status"
                THEN gen' = [gen EXCEPT
                        !.pc = "done",
                        !.yielded = Append(@, <<ProviderName(b), " Error: ",
                                                "status - body">>)]
                ELSE gen' = [gen EXCEPT !.pc = "words",
                                        !.words = Split(provider.text)]
           ELSE gen' = [gen EXCEPT !.pc = "iterate"]
    /\ UNCHANGED <<created, provider, built>>

\* The next delta or line arrives.
StreamItem ==
    /\ gen.pc = "iterate"
    /\ gen.pos < Len(provider.items)
    /\ LET item == provider.items[gen.pos + 1]
           take == IF provider.binding \in SdkBindings
                   THEN item.json /\ item.has /\ item.text # <<>>
                   ELSE item.json /\ item.has
       IN  gen' = [gen EXCEPT
                      !.pos = @ + 1,
                      !.yielded = IF take THEN Append(@, item.text) ELSE @]
    /\ UNCHANGED <<created, provider, built>>

\* The simulated stream of HuggingFace: for word in words: yield word + " "
StreamWord ==
    /\ gen.pc = "words"
    /\ gen.words # <<>>
    /\ gen' = [gen EXCEPT !.words = Tail(@),
                          !.yielded = Append(@, Head(gen.words) \o <<" ">>)]
    /\ UNCHANGED <<created, provider, built>>

\* The items or words are exhausted, or the iteration raises.
StreamEnd ==
    /\ \/ gen.pc = "iterate" /\ gen.pos = Len(provider.items)
       \/ gen.pc = "words" /\ gen.words = <<>>
    /\ gen' = [gen EXCEPT
          !.pc = "done",
          !.yielded = IF provider.failure = "midstream"
                      THEN Append(@, ErrorFragment(provider.binding)) ELSE @]
    /\ UNCHANGED <<created, provider, built>>

(***************************************************************************)
(* SegSpec: one listening period with frames of any amplitude.             *)
(***************************************************************************)
SegInit ==
    AudioInit /\ tape_loud = 0 /\ RegInit /\ api_keys = {} /\ LLMIdle

SegNext ==
    /\ \/ StartListening /\ audio_thread = 0
       \/ StopListening
       \/ \E t \in Threads : OpenStream(t)
       \/ \E t \in Threads : OpenFail(t)
       \/ \E t \in Threads : LoopCheck(t)
       \/ \E t \in Threads : \E level \in Levels : ReadIteration(t, level)
       \/ \E t \in Threads : ReadError(t)
    /\ UNCHANGED <<regvars, llmvars>>

SegSpec == SegInit /\ [][SegNext]_vars

(***************************************************************************)
(* ScenSpec: a freshly started segmenter fed a tape chosen at the start:   *)
(* tape_loud loud frames, then silent frames only.                         *)
(***************************************************************************)
TapeLevel(n) == IF n <= tape_loud THEN LoudLevel ELSE SilentLevel

ScenInit ==
    /\ AudioInit /\ tape_loud \in 0..MaxTapeLoud
    /\ RegInit /\ api_keys = {} /\ LLMIdle

ScenNext ==
    /\ \/ StartListening /\ audio_thread = 0
       \/ \E t \in Threads : OpenStream(t)
       \/ \E t \in Threads : LoopCheck(t)
       \/ \E t \in Threads :
             ReadIteration(t, TapeLevel(worker[t].nread + 1))
    /\ UNCHANGED <<regvars, llmvars>>

ScenSpec == ScenInit /\ [][ScenNext]_vars

(***************************************************************************)
(* Spec: the registry, with clients connecting, sending text, clearing     *)
(* their history and leaving while transcriptions are broadcast.           *)
(***************************************************************************)
Init ==
    /\ AudioInit
    /\ tape_loud = 0
    /\ RegInit
    /\ api_keys \in {{}, {"groq"}}
    /\ LLMIdle

Next ==
    /\ \/ \E ws \in WS : Connect(ws)
       \/ \E ws \in WS : ClientClose(ws)
       \/ \E ws \in WS : Disconnect(ws)
       \/ \E ws \in WS : ClearHistory(ws)
       \/ \E ws \in WS : \E text \in Texts : TextInput(ws, text)
       \/ \E b \in Bs : \E text \in Texts : DeliverTranscription(b, text)
       \/ \E b \in Bs : BroadcastNext(b)
       \/ \E o \in Owners : HandleAppendUser(o)
       \/ \E o \in Owners : HandleGetClient(o)
       \/ \E o \in Owners : \E chunk \in Chunks :
             handler[o].chunks < MaxChunks /\ HandleChunk(o, chunk)
       \/ \E o \in Owners : HandleFinish(o)
    /\ UNCHANGED <<segvars, llmvars>>

Spec == Init /\ [][Next]_vars

(***************************************************************************)
(* ReqSpec: the requests of one session, with replies of several fragments.*)
(***************************************************************************)
ReqSessions == {1}

ReqNext ==
    /\ \/ \E ws \in ReqSessions : Connect(ws)
       \/ \E ws \in ReqSessions : ClientClose(ws)
       \/ \E ws \in ReqSessions : Disconnect(ws)
       \/ \E ws \in ReqSessions : \E text \in Texts : TextInput(ws, text)
       \/ \E b \in Bs : \E text \in Texts : DeliverTranscription(b, text)
       \/ \E b \in Bs : BroadcastNext(b)
       \/ \E o \in Owners : HandleAppendUser(o)
       \/ \E o \in Owners : HandleGetClient(o)
       \/ \E o \in Owners : \E chunk \in ReqChunks :
             handler[o].chunks < MaxReqChunks /\ HandleChunk(o, chunk)
       \/ \E o \in Owners : HandleFinish(o)
    /\ UNCHANGED <<segvars, llmvars>>

ReqSpec == Init /\ [][ReqNext]_vars

(***************************************************************************)
(* ModelSpec: model switching under any set of keys, as the clock advances.*)
(***************************************************************************)
ModelInit ==
    /\ AudioInit
    /\ tape_loud = 0
    /\ RegInit
    /\ api_keys \in SUBSET (KeyProviders \ {"huggingface"})
    /\ LLMIdle

ModelNext ==
    /\ \/ Tick
       \/ \E ws \in WS : Connect(ws)
       \/ \E ws \in WS : ClientClose(ws)
       \/ \E ws \in WS : Disconnect(ws)
       \/ \E ws \in WS : \E id \in RequestedModels : SetModel(ws, id)
    /\ UNCHANGED <<segvars, llmvars>>

ModelSpec == ModelInit /\ [][ModelNext]_vars

(***************************************************************************)
(* ListenSpec: start_listening and stop_listening called at any time,      *)
(* each worker reading a few frames.                                       *)
(***************************************************************************)
ListenNext ==
    /\ \/ StartListening
       \/ StopListening
       \/ \E t \in Threads : OpenStream(t)
       \/ \E t \in Threads : OpenFail(t)
       \/ \E t \in Threads : LoopCheck(t)
       \/ \E t \in Threads : \E level \in Levels :
             worker[t].nread < MaxListenReads /\ ReadIteration(t, level)
       \/ \E t \in Threads : ReadError(t)
    /\ UNCHANGED <<regvars, llmvars>>

ListenSpec == SegInit /\ [][ListenNext]_vars

\* ListenLive: ListenSpec with the worker threads scheduled: a thread that
\* can open its stream, test the flag or get a read back (a frame or an
\* error) eventually does.
ReadReturns(t) ==
    \/ \E level \in Levels :
          worker[t].nread < MaxListenReads /\ ReadIteration(t, level)
    \/ ReadError(t)

ListenLive ==
    /\ ListenSpec
    /\ \A t \in Threads :
          /\ WF_vars((OpenStream(t) \/ OpenFail(t))
                         /\ UNCHANGED <<regvars, llmvars>>)
          /\ WF_vars(LoopCheck(t) /\ UNCHANGED <<regvars, llmvars>>)
          /\ WF_vars(ReadReturns(t) /\ UNCHANGED <<regvars, llmvars>>)

(***************************************************************************)
(* PipeSpec: the segmenter fed a loud passage and then silence, its        *)
(* utterances transcribed, the texts broadcast to one session.             *)
(***************************************************************************)
PipeInit ==
    /\ AudioInit /\ tape_loud = MaxTapeLoud
    /\ RegInit /\ api_keys = {"groq"}
    /\ LLMIdle

PipeNext ==
    \/ /\ \/ StartListening /\ audio_thread = 0
          \/ \E t \in Threads : OpenStream(t)
          \/ \E t \in Threads : LoopCheck(t)
          \/ \E t \in Threads :
                ReadIteration(t, TapeLevel(worker[t].nread + 1))
       /\ UNCHANGED <<regvars, llmvars>>
    \/ /\ PoolTake
       /\ UNCHANGED <<regvars, llmvars>>
    \/ /\ \E r \in Recognitions : ProcessAudioBuffer(r)
       /\ UNCHANGED llmvars
    \/ /\ \/ \E ws \in ReqSessions : Connect(ws)
          \/ \E b \in Bs : BroadcastNext(b)
          \/ \E o \in Owners : HandleAppendUser(o)
          \/ \E o \in Owners : HandleGetClient(o)
          \/ \E o \in Owners : \E chunk \in Chunks :
                handler[o].chunks < MaxChunks /\ HandleChunk(o, chunk)
          \/ \E o \in Owners : HandleFinish(o)
       /\ UNCHANGED <<segvars, llmvars>>

PipeSpec == PipeInit /\ [][PipeNext]_vars

(***************************************************************************)
(* FactorySpec: create_llm_client called with any identifier under any set *)
(* of keys.                                                                *)
(***************************************************************************)
FactoryInit ==
    /\ AudioInit /\ tape_loud = 0
    /\ RegInit /\ api_keys \in SUBSET KeyProviders
    /\ LLMIdle

FactoryNext ==
    /\ \E id \in RequestedModels : Create(id)
    /\ UNCHANGED <<segvars, regvars>>

FactorySpec == FactoryInit /\ [][FactoryNext]_vars

(***************************************************************************)
(* StreamSpec: one get_streaming_response call of any binding, consumed to *)
(* its end, whatever the provider does.                                    *)
(***************************************************************************)
StreamInit ==
    /\ AudioInit /\ tape_loud = 0
    /\ RegInit /\ api_keys = {}
    /\ created = NoCreated
    /\ provider \in Providers
    /\ gen = [NoGen EXCEPT !.pc = "request"]
    /\ built = NoBuilt

StreamNext ==
    /\ \/ StreamRequest
       \/ StreamItem
       \/ StreamWord
       \/ StreamEnd
    /\ UNCHANGED <<segvars, regvars>>

StreamSpec == StreamInit /\ [][StreamNext]_vars

(***************************************************************************)
(* SwitchSpec: one session switching models while its requests, typed and  *)
(* broadcast, are answered.                                                *)
(***************************************************************************)
SwitchInit ==
    /\ AudioInit /\ tape_loud = 0
    /\ RegInit /\ api_keys = {"groq"}
    /\ LLMIdle

SwitchNext ==
    /\ \/ Tick
       \/ \E ws \in ReqSessions : Connect(ws)
       \/ \E ws \in ReqSessions : \E id \in RequestedModels : SetModel(ws, id)
       \/ \E ws \in ReqSessions : \E text \in Texts : TextInput(ws, text)
       \/ \E b \in Bs : \E text \in Texts : DeliverTranscription(b, text)
       \/ \E b \in Bs : BroadcastNext(b)
       \/ \E o \in Owners : HandleAppendUser(o)
       \/ \E o \in Owners : HandleGetClient(o)
       \/ \E o \in Owners : \E chunk \in ReqChunks :
             handler[o].chunks < MaxReqChunks /\ HandleChunk(o, chunk)
       \/ \E o \in Owners : HandleFinish(o)
    /\ UNCHANGED <<segvars, llmvars>>

SwitchSpec == SwitchInit /\ [][SwitchNext]_vars

(***************************************************************************)
(* BuildSpec: _build_messages called with any text and any history.        *)
(***************************************************************************)
BuildInit ==
    /\ AudioInit /\ tape_loud = 0
    /\ RegInit /\ api_keys = {}
    /\ created = NoCreated /\ provider = NoProvider /\ gen = NoGen
    /\ built \in {[NoBuilt EXCEPT !.text = t, !.history = h] :
                     t \in BuildTexts, h \in BuildHistories}

BuildNext ==
    /\ BuildCall
    /\ UNCHANGED <<segvars, regvars>>

BuildSpec == BuildInit /\ [][BuildNext]_vars

(***************************************************************************)
(* SeqSpec: one session whose requests are typed only, so that the         *)
(* endpoint handles them one after the other.                              *)
(***************************************************************************)
SeqTexts == {<<"hi">>, <<"yo">>}

SeqNext ==
    /\ \/ \E ws \in ReqSessions : Connect(ws)
       \/ \E ws \in ReqSessions : ClientClose(ws)
       \/ \E ws \in ReqSessions : Disconnect(ws)
       \/ \E ws \in ReqSessions : ClearHistory(ws)
       \/ \E ws \in ReqSessions : \E text \in SeqTexts : TextInput(ws, text)
       \/ \E o \in Owners : HandleAppendUser(o)
       \/ \E o \in Owners : HandleGetClient(o)
       \/ \E o \in Owners : \E chunk \in ReqChunks :
             handler[o].chunks < MaxReqChunks /\ HandleChunk(o, chunk)
       \/ \E o \in Owners : HandleFinish(o)
    /\ UNCHANGED <<segvars, llmvars>>

SeqSpec == Init /\ [][SeqNext]_vars

(***************************************************************************)
(* BcastSpec: a transcription broadcast to sessions that connect with or   *)
(* without a usable client and whose peers may be gone.                    *)
(***************************************************************************)
BcastNext ==
    /\ \/ \E ws \in WS : Connect(ws)
       \/ \E ws \in WS : ClientClose(ws)
       \/ \E b \in Bs : \E text \in Texts : DeliverTranscription(b, text)
       \/ \E b \in Bs : BroadcastNext(b)
       \/ \E o \in Owners : HandleAppendUser(o)
       \/ \E o \in Owners : HandleGetClient(o)
       \/ \E o \in Owners : \E chunk \in Chunks :
             handler[o].chunks < MaxChunks /\ HandleChunk(o, chunk)
       \/ \E o \in Owners : HandleFinish(o)
    /\ UNCHANGED <<segvars, llmvars>>

BcastSpec == Init /\ [][BcastNext]_vars

(***************************************************************************)
(* AmpSpec: the amplitude of one frame, for frames of any samples.         *)
(***************************************************************************)
AmpInit ==
    /\ is_listening = FALSE /\ audio_thread = 0
    /\ worker = [t \in Threads |-> NoLocals]
    /\ work_queue = <<>> /\ in_flight = <<>> /\ last_op = NoOp
    /\ tape_loud = 0
    /\ amp \in {[NoAmp EXCEPT !.samples = f] : f \in AmpFrames}
    /\ RegInit /\ api_keys = {} /\ LLMIdle

AmpNext ==
    /\ ComputeLevel
    /\ UNCHANGED <<regvars, llmvars>>

AmpSpec == AmpInit /\ [][AmpNext]_vars

(***************************************************************************)
(* RestartSpec: start_listening and stop_listening called at any time      *)
(* while the workers read a silent stream long enough to flush.            *)
(***************************************************************************)
MaxRestartReads == 22

RestartNext ==
    /\ \/ StartListening
       \/ StopListening
       \/ \E t \in Threads : OpenStream(t)
       \/ \E t \in Threads : LoopCheck(t)
       \/ \E t \in Threads :
             /\ worker[t].nread < MaxRestartReads
             /\ ReadIteration(t, TapeLevel(worker[t].nread + 1))
    /\ UNCHANGED <<regvars, llmvars>>

RestartSpec == SegInit /\ [][RestartNext]_vars

(***************************************************************************)
(* ControlSpec: one session sending start_listening and stop_listening     *)
(* messages and texts while /start-audio and /stop-audio are called.       *)
(***************************************************************************)
ControlNext ==
    \/ /\ \/ StartListening
          \/ StopListening
          \/ \E t \in Threads : OpenStream(t)
          \/ \E t \in Threads : LoopCheck(t)
          \/ \E t \in Threads : \E level \in Levels :
                worker[t].nread < MaxListenReads /\ ReadIteration(t, level)
       /\ UNCHANGED <<regvars, llmvars>>
    \/ /\ \/ \E ws \in ReqSessions : Connect(ws)
          \/ \E ws \in ReqSessions : StartAudioListening(ws)
          \/ \E ws \in ReqSessions : StopAudioListening(ws)
          \/ \E ws \in ReqSessions : \E text \in Texts : TextInput(ws, text)
          \/ \E o \in Owners : HandleAppendUser(o)
          \/ \E o \in Owners : HandleGetClient(o)
          \/ \E o \in Owners : \E chunk \in Chunks :
                handler[o].chunks < MaxChunks /\ HandleChunk(o, chunk)
          \/ \E o \in Owners : HandleFinish(o)
       /\ UNCHANGED <<segvars, llmvars>>

ControlSpec == PipeInit /\ [][ControlNext]_vars

(***************************************************************************)
(* LangSpec: sessions sending set_language and listening messages as they  *)
(* come and go.                                                            *)
(***************************************************************************)
LangNext ==
    /\ \/ \E ws \in WS : Connect(ws)
       \/ \E ws \in WS : ClientClose(ws)
       \/ \E ws \in WS : Disconnect(ws)
       \/ \E ws \in WS : \E language \in Languages : SetLanguage(ws, language)
       \/ \E ws \in WS : StartAudioListening(ws)
       \/ \E ws \in WS : StopAudioListening(ws)
    /\ UNCHANGED <<segvars, llmvars>>

LangSpec == Init /\ [][LangNext]_vars

(***************************************************************************)
(* Properties of the segmenter.                                            *)
(***************************************************************************)
\* Thread t completes one pass of the loop body in this step.
ReadStep(t) == worker[t].pc = "read" /\ worker'[t].nread = worker[t].nread + 1

\* The frames the buffer of t holds once the frame of this step is appended.
HeldNow(t) == Append(worker[t].audio_buffer, StreamRead(worker[t].nread + 1))

\* The silent frames read in a row up to and including the frame of this step.
RunNow(t) == IF worker'[t].last_silent THEN worker[t].quiet + 1 ELSE 0

\* Frames t has read since its last flush, the frame of this step included.
SinceFlush(t) == worker[t].nread + 1 - worker[t].flushed_at

\* u is made of the bytes of the frames first..last of the stream, in order.
IsFrames(u, first, last) ==
    /\ Len(u) = (last - first + 1) * FrameSize
    /\ \A k \in 1..Len(u) : u[k] = (first - 1) * FrameSize + k

EmitsOne == Len(work_queue') = Len(work_queue) + 1
          /\ SubSeq(work_queue', 1, Len(work_queue)) = work_queue

NewUtterance == work_queue'[Len(work_queue')]

\* C1 (as amended): a pass of the loop emits an Utterance exactly when more
\* than MinFrames frames are buffered and strictly more than ThresholdFrames
\* silent frames were read in a row; it then emits exactly one, made of the
\* frames read since the previous flush (or the start) when these are at most
\* HardCap + 1 (no trim happened), and else of the most recent ones only
\* (more than TailFrames, at most HardCap + 1), in read order up to the frame
\* just read.
C1_FlushOnSilence ==
    [][\A t \in Threads : ReadStep(t) =>
         LET n == worker[t].nread + 1
             m == Len(NewUtterance) \div FrameSize
         IN  IF Len(HeldNow(t)) > MinFrames /\ RunNow(t) > ThresholdFrames
             THEN /\ EmitsOne
                  /\ IsFrames(NewUtterance, n - m + 1, n)
                  /\ (SinceFlush(t) <= HardCap + 1) => (m = SinceFlush(t))
                  /\ (SinceFlush(t) > HardCap + 1) =>
                        (m > TailFrames /\ m <= HardCap + 1)
             ELSE work_queue' = work_queue]_vars

\* C1 witness: a second Utterance was emitted after the first one.
C1_Witness ==
    /\ Len(work_queue) = 2
    /\ worker[1].pc = "loop"
    /\ worker[1].flushed_at = worker[1].nread

\* C1 (as stated): once more than MinFrames frames are buffered and at least
\* ThresholdFrames silent frames were read in a row, exactly one Utterance is
\* emitted, holding every frame read since the previous flush.
C1_Original ==
    [][\A t \in Threads :
         (ReadStep(t) /\ Len(HeldNow(t)) > MinFrames
             /\ RunNow(t) >= ThresholdFrames) =>
            /\ EmitsOne
            /\ IsFrames(NewUtterance, worker[t].flushed_at + 1,
                        worker[t].nread + 1)]_vars

\* C2 (as amended): after 25 loud frames and 6 silent frames the segmenter has
\* flushed exactly once, at the 6th silent frame, and the Utterance holds all
\* 31 frames read; before the 6th silent frame nothing was flushed.
C2_Scenario ==
    \A t \in Threads :
        (tape_loud = 25 /\ worker[t].pc = "loop") =>
            /\ (worker[t].nread < 25 + 6) => (work_queue = <<>>)
            /\ (worker[t].nread = 25 + 6) =>
                  (/\ Len(work_queue) = 1
                   /\ IsFrames(work_queue[1], 1, 25 + 6))

\* C2 witness: the 31 frames of the scenario were read and a flush happened.
C2_Witness ==
    /\ tape_loud = 25
    /\ worker[1].pc = "loop"
    /\ worker[1].nread = 25 + 6
    /\ Len(work_queue) = 1

\* C2 (as stated): after 25 loud and 6 silent frames exactly one Utterance was
\* flushed and it consists of 25 frames.
C2_Original ==
    \A t \in Threads :
        (tape_loud = 25 /\ worker[t].pc = "loop" /\ worker[t].nread = 25 + 6) =>
            /\ Len(work_queue) = 1
            /\ Len(work_queue[1]) = 25 * FrameSize

\* C3: an Utterance handed to the executor is the bytes of the buffered frames
\* in order: FrameSize bytes per buffered frame, byte j of frame i at place
\* (i-1)*FrameSize + j, none lost, repeated or moved.
C3_UtteranceIsBuffer ==
    [][\A t \in Threads : (ReadStep(t) /\ work_queue' # work_queue) =>
         LET buf == HeldNow(t)
             u   == NewUtterance
         IN  /\ EmitsOne
             /\ Len(u) = FrameSize * Len(buf)
             /\ \A i \in 1..Len(buf) : \A j \in 1..FrameSize :
                    u[(i - 1) * FrameSize + j] = buf[i][j]]_vars

\* C3 witness: an Utterance of more than MinFrames frames is in the queue.
C3_Witness ==
    /\ work_queue # <<>>
    /\ Len(work_queue[1]) > MinFrames * FrameSize
    /\ worker[1].nread > worker[1].flushed_at

\* C4: a pass of the loop that does not flush and leaves more than HardCap
\* frames buffered trims the buffer to the TailFrames frames read last, in
\* order; so the buffer never holds more than HardCap frames between passes.
C4_OverflowTrim ==
    /\ [](\A t \in Threads : Len(worker[t].audio_buffer) <= HardCap)
    /\ [][\A t \in Threads :
            (ReadStep(t) /\ work_queue' = work_queue
                /\ Len(HeldNow(t)) > HardCap) =>
            /\ Len(worker'[t].audio_buffer) = TailFrames
            /\ \A i \in 1..TailFrames :
                  worker'[t].audio_buffer[i] =
                      StreamRead(worker'[t].nread - TailFrames + i)]_vars

\* C4 witness: the buffer was just trimmed to its tail.
C4_Witness ==
    /\ worker[1].pc = "loop"
    /\ worker[1].nread - worker[1].flushed_at = HardCap + 1
    /\ Len(worker[1].audio_buffer) = TailFrames


(***************************************************************************)
(* Properties of the registry.                                             *)
(***************************************************************************)
\* The step delivers one more event to ws, and it is ev.
Receives(ws, ev) ==
    sent'[ws].n = sent[ws].n + 1 /\ sent'[ws].last = ev

\* The identifier is missing or is not a value of the allow-list.
Disallowed(id) == id = <<>> \/ id \notin AVAILABLE_MODELS

\* The history of ws as a value: its entries, or "none" without an entry.
History(ws) ==
    IF conversation_histories[ws] = 0 THEN <<"none">>
    ELSE heap[conversation_histories[ws]]

\* C5: a set_model request whose identifier is missing or not a value of the
\* allow-list is answered with the 'error' event of the allow-list check,
\* and the session's LLM client is the one it had before the request.
C5_DisallowedModel ==
    [][\A ws \in WS : \A id \in RequestedModels :
          (Disallowed(id) /\ SetModel(ws, id)) =>
              /\ Receives(ws, Event("error", "Invalid or disallowed model"))
              /\ connection_llm_clients'[ws] = connection_llm_clients[ws]
      ]_vars

\* C5: a session holding a client has just been refused a disallowed model.
C5_Witness ==
    \E ws \in WS :
        /\ sent[ws].last = Event("error", "Invalid or disallowed model")
        /\ connection_llm_clients[ws] # NoClient
        /\ endpoint[ws] = "recv"

\* C6: a set_model request for an allow-listed model whose client can be
\* built succeeds when it arrives outside the cooldown (the client is
\* replaced, 'model_changed' is sent and the cooldown starts); one that
\* arrives less than Cooldown after that is refused with an 'error' event and
\* the client stays the one the first request set.
C6_Cooldown ==
    [][\A ws \in WS : \A id \in AVAILABLE_MODELS :
          (CreateClient(id).ok /\ SetModel(ws, id)) =>
              IF clock - last_model_switch[ws] < Cooldown
              THEN /\ Receives(ws, Event("error",
                                         "Model switching too frequently"))
                   /\ connection_llm_clients'[ws] = connection_llm_clients[ws]
                   /\ last_model_switch'[ws] = last_model_switch[ws]
              ELSE /\ connection_llm_clients'[ws] = CreateClient(id).client
                   /\ sent'[ws].n = sent[ws].n + 1
                   /\ sent'[ws].last.type = "model_changed"
                   /\ last_model_switch'[ws] = clock
      ]_vars

\* C6: a first request switched the session to another model, and a second
\* one, inside the cooldown of the first, has just been refused.
C6_Witness ==
    \E ws \in WS :
        /\ sent[ws].last = Event("error", "Model switching too frequently")
        /\ clock - last_model_switch[ws] < Cooldown
        /\ connection_llm_clients[ws] # NoClient
        /\ connection_llm_clients[ws] # CreateClient(DEFAULT_MODEL_ID).client

\* C7: every set_model request answered with an 'error' event leaves the
\* session's client, its tuning profile and its last-switch timestamp as they
\* were before the request.
C7_RejectionMutatesNothing ==
    [][\A ws \in WS : \A id \in RequestedModels :
          (/\ SetModel(ws, id)
           /\ sent'[ws].n = sent[ws].n + 1
           /\ sent'[ws].last.type = "error") =>
              /\ connection_llm_clients'[ws] = connection_llm_clients[ws]
              /\ connection_model_configs'[ws] = connection_model_configs[ws]
              /\ last_model_switch'[ws] = last_model_switch[ws]
      ]_vars

\* C8: every broadcast of a transcription runs on the server's event loop, and
\* every handle_transcription call runs in the event-loop thread.
C8_OnlyOnEventLoop ==
    /\ \A b \in Bs :
          bcast[b].state # "none" =>
              bcast[b].thread = "loop" /\ bcast[b].loop = "server"
    /\ \A o \in Owners : handler[o].pc # "idle" => handler[o].thread = "loop"

\* C9: handling clear_history for a session leaves it with an empty history,
\* and leaves the history, the LLM client and the tuning profile of every
\* other session as they were.
C9_ClearHistoryFrame ==
    [][\A ws \in WS :
          ClearHistory(ws) =>
              /\ History(ws)' = <<>>
              /\ \A w \in WS \ {ws} :
                    /\ History(w)' = History(w)
                    /\ connection_llm_clients'[w] = connection_llm_clients[w]
                    /\ connection_model_configs'[w] =
                          connection_model_configs[w]
      ]_vars

\* C9: a session has just been cleared while another connected session holds
\* entries in its own history.
C9_Witness ==
    \E ws \in WS : \E w \in WS \ {ws} :
        /\ sent[ws].last = Event("history_cleared", <<>>)
        /\ History(ws) = <<>>
        /\ conversation_histories[w] # 0
        /\ Len(History(w)) > 0
        /\ endpoint[w] = "recv"

\* C10: once disconnect(websocket) has been processed, the websocket has no
\* entry in active_connections, conversation_histories,
\* connection_llm_clients, connection_model_configs or
\* connection_audio_handlers.
C10_DisconnectReleasesAll ==
    \A ws \in WS :
        endpoint[ws] = "closed" =>
            /\ \A i \in 1..Len(active_connections) : active_connections[i] # ws
            /\ conversation_histories[ws] = 0
            /\ connection_llm_clients[ws] = NoClient
            /\ connection_model_configs[ws] = NoConfig
            /\ ws \notin connection_audio_handlers


(***************************************************************************)
(* Properties of one request.                                              *)
(***************************************************************************)
\* The call of owner o ends in this step.
Ends(o) == handler[o].pc # "idle" /\ handler'[o].pc = "idle"

\* The concatenation of the content of the response_chunk events among the
\* first k events of a call (they start at the third event).
RECURSIVE ChunkText(_, _)
ChunkText(e, k) ==
    IF k < 3 THEN <<>> ELSE ChunkText(e, k - 1) \o e[k].content[1]

\* The events of the running call of o are a transcription, then a status
\* 'thinking', then response_chunks only, carrying the fragments in the order
\* they were yielded.
InRequestOrder(o) ==
    LET e == handler[o].events
    IN  /\ Len(e) >= 1
        /\ e[1] = Event("transcription", handler[o].text)
        /\ (handler[o].pc = "append") => (Len(e) = 1)
        /\ (handler[o].pc = "client") => (Len(e) = 2)
        /\ (handler[o].pc \in {"client", "stream"}) =>
              (/\ Len(e) = 2 + handler[o].chunks
               /\ e[2] = Event("status", "thinking")
               /\ \A i \in 3..Len(e) : e[i].type = "response_chunk"
               /\ ChunkText(e, Len(e)) = handler[o].response)

C12_Cumulative ==
    /\ [](\A o \in Owners : \A k \in 3..Len(handler[o].events) :
             handler[o].events[k].content[2] =
                 ChunkText(handler[o].events, k))
    /\ [][\A o \in Owners :
            (Ends(o) /\ handler[o].pc = "stream") =>
                LET ws  == handler[o].ws
                    all == ChunkText(handler[o].events,
                                     Len(handler[o].events))
                IN  /\ conversation_histories'[ws] = handler[o].hist
                    /\ heap'[handler[o].hist] =
                          Append(heap[handler[o].hist],
                                 [role |-> "assistant", content |-> all])
                    /\ client_open[ws] =>
                          Receives(ws, Event("response_complete", all))
      ]_vars

\* C12: a reply of the fragments "b c" and "a" has been completed and is the
\* last entry of the session's history.
C12_Witness ==
    \E ws \in WS :
        /\ sent[ws].last = Event("response_complete", <<"b", "c", "a">>)
        /\ conversation_histories[ws] # 0
        /\ Len(History(ws)) >= 2
        /\ History(ws)[Len(History(ws))] =
              [role |-> "assistant", content |-> <<"b", "c", "a">>]


(***************************************************************************)
(* Properties of the LLM clients.                                          *)
(***************************************************************************)
\* C13: when the provider or network call of a get_streaming_response fails,
\* a non-success HTTP status included, the stream ends and the last fragment
\* it yielded is '<Provider> Error: <message>'.
C13_FailureSurfaces ==
    (gen.pc = "done" /\ provider.failure # "none") =>
        /\ gen.yielded # <<>>
        /\ IsErrorFragment(provider.binding, gen.yielded[Len(gen.yielded)])

\* C14: the concatenation of the fragments yielded for a successful request
\* is the provider's full reply text.
C14_FragmentsMakeReply ==
    (gen.pc = "done" /\ provider.failure = "none") =>
        ConcatAll(gen.yielded) = ReplyText

\* C15: create_llm_client builds nothing for an identifier that is not a
\* value of the allow-list, and nothing for a provider that needs a key when
\* the key is not set; a client that exists has its provider's key set.
C15_FactoryRejects ==
    created.called =>
        LET id  == created.id
            res == created.result
        IN  /\ (id \notin AVAILABLE_MODELS) =>
                  (~res.ok /\ res.client = NoClient)
            /\ (Len(id) >= 2 /\ id[1] \in KeyProviders
                          /\ id[1] \notin api_keys) =>
                  (~res.ok /\ res.client = NoClient)
            /\ (res.client # NoClient) =>
                  (/\ res.ok
                   /\ id \in AVAILABLE_MODELS
                   /\ res.client = [cls |-> id[1], model |-> id[2]]
                   /\ res.client.cls \in KeyProviders =>
                         res.client.cls \in api_keys)

\* C15: the factory has just refused an allow-listed model for its missing
\* key, with the keys of other providers set.
C15_Witness ==
    /\ created.called
    /\ created.id = OpenAIModel
    /\ "openai" \notin api_keys
    /\ "groq" \in api_keys
    /\ ~created.result.ok
    /\ created.result.error = "key not set"


(***************************************************************************)
(* Properties of connecting, listening and transcribing.                   *)
(***************************************************************************)
\* C16: connect gives every new connection an empty history, the client and
\* the tuning profile of the default model, and sends it the
\* available_models event.
C16_ConnectAllocates ==
    [][\A ws \in WS :
          (endpoint[ws] = "new" /\ endpoint'[ws] # "new") =>
              /\ conversation_histories'[ws] # 0
              /\ History(ws)' = <<>>
              /\ connection_llm_clients'[ws] =
                    [cls |-> DEFAULT_MODEL_ID[1], model |-> DEFAULT_MODEL_ID[2]]
              /\ connection_model_configs'[ws] =
                    GetModelConfig(DEFAULT_MODEL_ID)
              /\ Receives(ws, Event("available_models", DEFAULT_MODEL_ID))
      ]_vars

\* What the audio handler holds, the history of its calls apart.
HandlerState == <<is_listening, audio_thread, worker, work_queue>>

\* C17: start_listening while listening changes nothing and starts no
\* thread; stop_listening while idle changes nothing; is_listening is always
\* False (Idle) or True (Listening).
C17_ListeningNoOps ==
    /\ [](is_listening \in BOOLEAN)
    /\ [][(is_listening /\ StartListening) => UNCHANGED HandlerState]_vars
    /\ [][(~is_listening /\ StopListening) => UNCHANGED HandlerState]_vars

\* C17: start_listening has just been called while one worker was listening,
\* and that worker is still the only thread.
C17_Witness ==
    /\ last_op = Op("start_listening", TRUE, "none")
    /\ is_listening
    /\ audio_thread = 1
    /\ worker[1].pc \in {"loop", "read"}
    /\ \A t \in Threads \ {1} : worker[t].pc = "unborn"

\* C18: a transcription that ends in UnknownValueError, in RequestError or in
\* a blank text changes nothing in the registry and nothing of the segmenter
\* loop; one that returns a non-blank text starts exactly one broadcast, of
\* that text, and leaves the loop alone as well.
C18_TranscriptionOutcomes ==
    [][\A r \in Recognitions :
          ProcessAudioBuffer(r) =>
              /\ worker' = worker
              /\ is_listening' = is_listening
              /\ IF r.kind = "text" /\ (\E i \in 1..Len(r.text) : r.text[i] # " ")
                 THEN \E b \in Bs :
                         /\ bcast[b].state = "none"
                         /\ bcast'[b].state = "running"
                         /\ bcast'[b].text = r.text
                         /\ bcast'[b].idx = 0
                         /\ \A c \in Bs \ {b} : bcast'[c] = bcast[c]
                         /\ UNCHANGED <<sent, heap, conversation_histories,
                                        handler>>
                 ELSE UNCHANGED regvars
      ]_vars

\* C18: a transcription has just failed with a provider error while the
\* worker listens to a connected session; nothing was broadcast.
C18_Witness ==
    /\ last_op.op = "transcribe"
    /\ last_op.outcome.kind = "request_error"
    /\ is_listening
    /\ \E t \in Threads : worker[t].pc \in {"loop", "read"}
    /\ \A b \in Bs : bcast[b].state = "none"
    /\ \E ws \in WS : endpoint[ws] = "recv"

\* C19: when a frame read raises, the worker goes back to the loop test with
\* its buffer and its silence counter as they were before the read.
C19_ReadErrorKeepsState ==
    [][\A t \in Threads :
          (/\ worker[t].pc = "read"
           /\ worker'[t] # worker[t]
           /\ worker'[t].nread # worker[t].nread + 1) =>
              /\ worker'[t].pc = "loop"
              /\ worker'[t].audio_buffer = worker[t].audio_buffer
              /\ worker'[t].silence_counter = worker[t].silence_counter
      ]_vars

\* C19: a read has just failed in a worker that holds frames and counts
\* silence.
C19_Witness ==
    \E t \in Threads :
        /\ last_op.op = "read_error"
        /\ worker[t].pc = "loop"
        /\ Len(worker[t].audio_buffer) > MinFrames
        /\ worker[t].silence_counter > 0
        /\ is_listening

\* C20: when opening the input stream fails, the handler is Idle afterwards:
\* is_listening is false and /status reports audio_listening false.
C20_OpenFailureDisables ==
    [][\A t \in Threads :
          (worker[t].pc = "open" /\ worker'[t].pc = "done") =>
              (~is_listening' /\ ~GetStatus'.audio_listening)
      ]_vars

(***************************************************************************)
(* Properties of model switching during requests.                          *)
(***************************************************************************)
\* The step replaces the client of ws by another client.
Switched(ws) ==
    /\ connection_llm_clients[ws] # NoClient
    /\ connection_llm_clients'[ws] # NoClient
    /\ connection_llm_clients'[ws] # connection_llm_clients[ws]

\* C21: a successful set_model leaves every running call as it is; a call
\* that reaches its stream afterwards streams from the client the session
\* then has; a call already consuming a stream keeps the client it started
\* with at every later fragment, and leaves the stream only by completing:
\* the reply is appended and 'response_complete' is its last event.
C21_SwitchKeepsStream ==
    [][\A o \in Owners :
          LET ws == handler[o].ws
          IN  /\ (\E w \in WS : Switched(w)) => handler' = handler
              /\ handler[o].pc = "client" /\ handler'[o].pc = "stream"
                    /\ connection_llm_clients[ws] # NoClient
                 => handler'[o].llm = connection_llm_clients[ws]
              /\ handler[o].pc = "stream" /\ handler'[o].pc = "stream"
                 => handler'[o].llm = handler[o].llm
              /\ handler[o].pc = "stream" /\ handler'[o].pc # "stream"
                 => /\ handler'[o] = IdleHandler
                    /\ heap'[handler[o].hist] =
                          Append(heap[handler[o].hist],
                                 [role |-> "assistant",
                                  content |-> handler[o].response])
                    /\ client_open[ws] =>
                          Receives(ws, Event("response_complete",
                                             handler[o].response))]_vars

\* A call has received its second fragment from the client it started with
\* after the session switched to another one.
C21_Witness ==
    \E o \in Owners :
        /\ handler[o].pc = "stream"
        /\ handler[o].chunks = 2
        /\ connection_llm_clients[handler[o].ws] # NoClient
        /\ handler[o].llm # connection_llm_clients[handler[o].ws]
        /\ sent[handler[o].ws].last.type = "response_chunk"

(***************************************************************************)
(* Properties of the message list.                                         *)
(***************************************************************************)
\* C22: the list _build_messages returns is the system instruction, then
\* the last min(n, 10) of the n history entries in their order, then the new
\* user text; no earlier entry is in it.
C22_BuildMessages ==
    built.called =>
        LET m == built.messages
            h == built.history
            k == IF Len(h) < 10 THEN Len(h) ELSE 10
        IN  /\ Len(m) = k + 2
            /\ m[1] = SystemMessage
            /\ \A i \in 1..k : m[1 + i] = h[Len(h) - k + i]
            /\ m[Len(m)] = [role |-> "user", content |-> built.text]
            /\ \A i \in 1..(Len(h) - k) :
                   \A j \in 1..(Len(m) - 1) : m[j] # h[i]

\* A call with a history of 12 entries returned 12 messages.
C22_Witness ==
    /\ built.called
    /\ Len(built.history) = 12
    /\ Len(built.messages) = 12

(***************************************************************************)
(* Properties of the flush test.                                           *)
(***************************************************************************)
\* The value of silence_counter once the frame of this step is counted.
CounterNow(t) ==
    IF worker'[t].last_silent THEN worker[t].silence_counter + 1 ELSE 0

\* C23: a pass of the loop flushes exactly when, the frame just read
\* included, the buffer holds more than 20 frames and silence_counter is
\* greater than threshold_frames; it does not when the counter equals
\* threshold_frames or the buffer holds 20 frames or fewer; after a flush the
\* buffer is empty and the counter is 0, so the flush happens at the first
\* frame that meets the test: between passes the test never holds.
C23_FlushBoundary ==
    /\ [](\A t \in Threads :
            ~(Len(worker[t].audio_buffer) > 20
              /\ worker[t].silence_counter > ThresholdFrames))
    /\ [][\A t \in Threads : ReadStep(t) =>
            LET held    == Len(worker[t].audio_buffer) + 1
                counter == CounterNow(t)
                flushed == work_queue' # work_queue
            IN  /\ flushed <=> (held > 20 /\ counter > ThresholdFrames)
                /\ (counter = ThresholdFrames \/ held <= 20) => ~flushed
                /\ flushed => /\ EmitsOne
                              /\ worker'[t].audio_buffer = <<>>
                              /\ worker'[t].silence_counter = 0
                /\ ~flushed => worker'[t].silence_counter = counter]_vars

\* The stream was silent from the start and the flush came at frame 21, the
\* first at which the buffer holds more than 20 frames.
C23_Witness ==
    /\ Len(work_queue) = 1
    /\ worker[1].nread = 21
    /\ worker[1].flushed_at = 21
    /\ worker[1].audio_buffer = <<>>
    /\ worker[1].silence_counter = 0

(***************************************************************************)
(* Properties of the history of a session.                                 *)
(***************************************************************************)
\* C24: when a call starts its stream, the history it passes to the client
\* is the one from before its user text, so that in the message list built
\* from it the text is the last message and the message before it is not
\* the same user message again.
C24_HistoryBeforeText ==
    [][\A o \in Owners :
          (handler[o].pc = "client" /\ handler'[o].pc = "stream") =>
             LET passed == heap[handler[o].hist]
                 m      == BuildMessages(handler[o].text, passed)
             IN  /\ m[Len(m)] = UserEntry(handler[o].text)
                 /\ m[Len(m) - 1] # UserEntry(handler[o].text)]_vars

\* h is a sequence of (user, assistant) pairs.
Pairs(h) ==
    /\ Len(h) % 2 = 0
    /\ \A i \in 1..Len(h) :
           h[i].role = IF i % 2 = 1 THEN "user" ELSE "assistant"

\* C25: with requests that never overlap, the history of a session is a
\* sequence of (user, assistant) pairs whenever no request is running, and
\* these pairs followed by the request's user text while one is; connect and
\* clear_history leave it empty, a request appends its text to the history
\* as it is, and its completion appends its reply to that: after k
\* completed requests the history is the k pairs in request order.
C25_PairsInOrder ==
    /\ [](\A ws \in ReqSessions :
            /\ handler[ws].pc \in {"idle", "append"}
                  /\ conversation_histories[ws] # 0
               => Pairs(History(ws))
            /\ handler[ws].pc \in {"client", "stream"}
               => LET h == heap[handler[ws].hist]
                  IN  /\ handler[ws].hist = conversation_histories[ws]
                      /\ h # <<>>
                      /\ Pairs(SubSeq(h, 1, Len(h) - 1))
                      /\ h[Len(h)] = [role |-> "user",
                                      content |-> handler[ws].text])
    /\ [][\A ws \in ReqSessions :
            /\ endpoint[ws] = "new" /\ endpoint'[ws] = "recv"
               => History(ws)' = <<>>
            /\ ClearHistory(ws) => History(ws)' = <<>>
            /\ handler[ws].pc = "append" /\ handler'[ws].pc = "client"
               => History(ws)' =
                     Append(History(ws), [role |-> "user",
                                          content |-> handler[ws].text])
            /\ handler[ws].pc = "stream" /\ handler'[ws].pc = "idle"
               => History(ws)' =
                     Append(History(ws),
                            [role |-> "assistant",
                             content |-> handler[ws].response])]_vars

\* Two requests with different texts were completed one after the other.
C25_Witness ==
    \E ws \in ReqSessions :
        /\ handler[ws].pc = "idle"
        /\ conversation_histories[ws] # 0
        /\ Len(History(ws)) = 4
        /\ History(ws)[1].content # History(ws)[3].content
        /\ Len(History(ws)[4].content) = 3

\* C26: a call appends its user text at the end of the session's list as the
\* list is at that moment, whatever other calls are running on the session
\* and wherever they stand; it is never held back for them (nothing
\* serializes the requests of a session), and it leaves them as they are.
C26_OverlapAppends ==
    /\ [](\A o \in Owners :
            handler[o].pc = "append" => ENABLED HandleAppendUser(o))
    /\ [][\A o \in Owners :
            (handler[o].pc = "append" /\ handler'[o].pc = "client") =>
               LET ws   == handler[o].ws
                   list == handler'[o].hist
               IN  /\ conversation_histories[ws] # 0
                      => list = conversation_histories[ws]
                   /\ heap'[list] =
                         Append(heap[list], [role |-> "user",
                                             content |-> handler[o].text])
                   /\ \A p \in Owners \ {o} : handler'[p] = handler[p]]_vars

\* Two calls overlapped on a session: its history is two user entries
\* followed by two assistant entries.
C26_Witness ==
    \E ws \in ReqSessions :
        /\ conversation_histories[ws] # 0
        /\ Len(History(ws)) = 4
        /\ History(ws)[1].role = "user"
        /\ History(ws)[2].role = "user"
        /\ History(ws)[3].role = "assistant"
        /\ History(ws)[4].role = "assistant"

(***************************************************************************)
(* Properties of the executor's pool.                                      *)
(***************************************************************************)
\* C27: at most 2 _process_audio_buffer calls run at any time; a pool thread
\* takes an utterance only while fewer than 2 run, and takes the oldest one
\* waiting; a flush only puts its utterance at the end of the queue, whatever
\* the pool is doing, and the worker goes on to its next pass; a worker about
\* to read a frame can always do so, however many transcriptions run or
\* wait.
C27_PoolOfTwo ==
    /\ [](Len(in_flight) <= 2)
    /\ [](\A t \in Threads :
            worker[t].pc = "read" =>
               ENABLED ReadIteration(t, TapeLevel(worker[t].nread + 1)))
    /\ [][/\ Len(in_flight') > Len(in_flight)
             => /\ Len(in_flight) < 2
                /\ work_queue # <<>>
                /\ in_flight' = Append(in_flight, Head(work_queue))
                /\ work_queue' = Tail(work_queue)
          /\ \A t \in Threads :
                (ReadStep(t) /\ worker'[t].flushed_at = worker[t].nread + 1)
                => /\ EmitsOne
                   /\ in_flight' = in_flight
                   /\ worker'[t].pc = "loop"]_vars

\* Both pool threads are busy, a third utterance waits in the queue, and the
\* worker has read further frames since it flushed that one.
C27_Witness ==
    /\ Len(in_flight) = 2
    /\ Len(work_queue) = 1
    /\ \E t \in Threads :
          /\ worker[t].pc = "read"
          /\ worker[t].nread > worker[t].flushed_at + 1

(***************************************************************************)
(* Properties of stop_listening.                                           *)
(***************************************************************************)
\* No worker holds a stream: each either never started or has left
\* _listen_continuously through its finally clause.
AllWorkersEnded == \A t \in Threads : worker[t].pc \in {"unborn", "done"}

\* C28: stop_listening leaves the handler Idle and returns without changing
\* any worker, whether or not the worker has ended by then; and from any
\* Idle state, unless start_listening is called again, every worker
\* eventually has left its loop and closed its stream, provided its reads
\* return.
C28_StopEnds ==
    /\ [][StopListening =>
            /\ ~is_listening'
            /\ worker' = worker
            /\ audio_thread' = audio_thread]_vars
    /\ (~is_listening) ~> (is_listening \/ AllWorkersEnded)

\* stop_listening has returned while the worker it stopped is still waiting
\* for a frame.
C28_Witness ==
    /\ last_op.op = "stop_listening"
    /\ last_op.listening
    /\ ~is_listening
    /\ audio_thread = 1
    /\ worker[1].pc = "read"
    /\ worker[1].nread >= 1

(***************************************************************************)
(* Properties of a broadcast.                                              *)
(***************************************************************************)
\* What the registry holds for session w, and what its peer has received.
SessionState(w) ==
    <<History(w), connection_llm_clients[w], connection_model_configs[w],
      last_model_switch[w], endpoint[w], client_open[w], sent[w]>>

C30_NoCancellation ==
    [][\A o \in Owners :
          handler[o].pc = "stream" =>
             LET ws == handler[o].ws
             IN  \/ handler'[o] = handler[o]
                 \/ /\ handler'[o].pc = "stream"
                    /\ handler'[o].chunks = handler[o].chunks + 1
                    /\ \E chunk \in ReqChunks :
                          handler'[o].response = handler[o].response \o chunk
                    /\ client_open' = client_open
                    /\ endpoint' = endpoint
                 \/ /\ handler'[o].pc = "idle"
                    /\ conversation_histories'[ws] = handler[o].hist
                    /\ heap'[handler[o].hist] =
                          Append(heap[handler[o].hist],
                                 [role |-> "assistant",
                                  content |-> handler[o].response])
                    /\ IF client_open[ws]
                       THEN Receives(ws, Event("response_complete",
                                               handler[o].response))
                       ELSE sent' = sent
                    /\ client_open' = client_open]_vars

\* The peer left after a fragment had reached it and its disconnect was
\* handled; the call went on all the same: the reply of two fragments is in
\* the history it stored again under the websocket.
C30_Witness ==
    \E ws \in ReqSessions :
        /\ endpoint[ws] = "closed"
        /\ sent[ws].last.type = "response_chunk"
        /\ \A o \in Owners : handler[o].pc = "idle"
        /\ conversation_histories[ws] # 0
        /\ History(ws)[Len(History(ws))].role = "assistant"
        /\ Len(History(ws)[Len(History(ws))].content) = 3

(***************************************************************************)
(* Properties of the worker threads.                                       *)
(***************************************************************************)
\* The threads that are in the frame-reading loop.
InLoop == {t \in Threads : worker[t].pc \in {"loop", "read"}}

\* C31: at most one worker thread is in the frame-reading loop, whatever the
\* order of the start_listening and stop_listening calls.
C31_OneWorker == Cardinality(InLoop) <= 1

(***************************************************************************)
(* Properties of clear_history during a request.                           *)
(***************************************************************************)
\* C32: once the session's history has been replaced by a clear while a call
\* still holds the list it began with, that list (and with it the entries
\* from before the clear) never becomes the session's history again.
C32_ClearedStaysCleared ==
    [][\A o \in Owners :
          (/\ handler[o].pc \in {"client", "stream"}
           /\ endpoint[handler[o].ws] \in {"recv", "busy"}
           /\ conversation_histories[handler[o].ws] # 0
           /\ conversation_histories[handler[o].ws] # handler[o].hist)
          => conversation_histories'[handler[o].ws] # handler[o].hist]_vars

(***************************************************************************)
(* Properties of a broadcast over a changing connection list.              *)
(***************************************************************************)
\* The number of times x occurs in seq.
Occurrences(seq, x) == Cardinality({i \in 1..Len(seq) : seq[i] = x})

\* ws is connected.
Connected(ws) == \E i \in 1..Len(active_connections) : active_connections[i] = ws

\* C33: when a broadcast ends, handle_transcription has been called
\* exactly once for every session that was connected from its start to its
\* end, whatever connects and disconnects happened meanwhile.
C33_EachSessionOnce ==
    [][\A b \in Bs :
          (bcast[b].state = "running" /\ bcast'[b].state = "done") =>
              \A ws \in WS :
                  /\ Occurrences(bcast[b].called, ws) <= 1
                  /\ Connected(ws) => ws \notin bcast[b].owed]_vars

(***************************************************************************)
(* Properties of the registry's dictionaries.                              *)
(***************************************************************************)
\* The websockets whose endpoint is serving a connected client.
Served == {ws \in WS : endpoint[ws] \in {"recv", "busy"}}

\* C34: every websocket of active_connections has a history and an LLM
\* client, and the number of connections /status reports is the number of
\* websockets being served.
C34_RegistryConsistent ==
    /\ \A i \in 1..Len(active_connections) :
          /\ conversation_histories[active_connections[i]] # 0
          /\ connection_llm_clients[active_connections[i]] # NoClient
    /\ GetStatus.active_connections = Cardinality(Served)

(***************************************************************************)
(* Properties of the content of an utterance.                              *)
(***************************************************************************)
\* C35: an emitted utterance holds at least one frame whose amplitude is at
\* or above SILENCE_THRESHOLD; in particular a stream of silent frames only
\* never has one emitted.
C35_UtteranceHasSound ==
    [][\A t \in Threads :
          (ReadStep(t) /\ EmitsOne) =>
             LET n == worker[t].nread + 1
                 m == Len(NewUtterance) \div FrameSize
             IN  \E k \in (n - m + 1)..n :
                    TapeLevel(k) >= SILENCE_THRESHOLD]_vars

(***************************************************************************)
(* Properties of the amplitude of a frame.                                 *)
(***************************************************************************)
\* The absolute value of x, as an integer.
Magnitude(x) == IF x < 0 THEN 0 - x ELSE x

RECURSIVE SumMagnitude(_)
SumMagnitude(samples) ==
    IF samples = <<>> THEN 0
    ELSE Magnitude(Head(samples)) + SumMagnitude(Tail(samples))

\* C36: the amplitude of a frame is the mean of the absolute values of its
\* samples and is never negative; a frame of -32768 samples only is not
\* silent.
C36_LevelIsMeanAbs ==
    amp.called =>
        /\ amp.level.n = Len(amp.samples)
        /\ amp.level.sum = SumMagnitude(amp.samples)
        /\ amp.level.sum >= 0
        /\ (\A i \in 1..Len(amp.samples) : amp.samples[i] = -32768)
           => ~amp.silent

(***************************************************************************)
(* Properties of the listening periods.                                    *)
(***************************************************************************)
\* C37: an emitted utterance that holds every frame read since the previous
\* flush holds frames of the current listening period only: the oldest of
\* them was read after the start_listening called last, so that frames
\* buffered before a stop_listening are never emitted.
C37_OnePeriodPerUtterance ==
    [][\A t \in Threads :
          (ReadStep(t) /\ EmitsOne /\ SinceFlush(t) <= HardCap + 1) =>
              /\ worker[t].buf_period # 0
              /\ worker[t].buf_period = audio_thread]_vars

(***************************************************************************)
(* Properties of the start_listening and stop_listening messages.          *)
(***************************************************************************)
\* Everything but the events received and the count of messages.
AllButSent ==
    <<segvars, clock, api_keys, active_connections, conversation_histories,
      heap, connection_llm_clients, connection_model_configs,
      connection_audio_handlers, last_model_switch, endpoint, client_open,
      handler, bcast>>

\* C38: a start_listening or stop_listening message changes nothing of the
\* audio handler, of its worker, of any history or of any LLM client; the
\* sender receives 'listening_started' or 'listening_stopped' and no other
\* session receives anything; is_listening changes only in a call of the
\* audio handler's start_listening or stop_listening.
C38_ListenMessagesOnlyNotify ==
    [][/\ \A ws \in WS :
             /\ StartAudioListening(ws) =>
                   /\ UNCHANGED AllButSent
                   /\ Receives(ws, Event("listening_started", <<>>))
                   /\ \A w \in WS \ {ws} : sent'[w] = sent[w]
             /\ StopAudioListening(ws) =>
                   /\ UNCHANGED AllButSent
                   /\ Receives(ws, Event("listening_stopped", <<>>))
                   /\ \A w \in WS \ {ws} : sent'[w] = sent[w]
       /\ is_listening' # is_listening =>
             /\ last_op'.op \in {"start_listening", "stop_listening"}
             /\ UNCHANGED regvars]_vars

\* The session was told 'listening_stopped' while the audio handler goes on
\* listening, its worker waiting for a frame.
C38_Witness ==
    /\ is_listening
    /\ \E t \in Threads : worker[t].pc = "read"
    /\ \E ws \in ReqSessions : sent[ws].last.type = "listening_stopped"

(***************************************************************************)
(* Properties of set_language.                                             *)
(***************************************************************************)
\* C39: a set_language request naming a supported language is answered by a
\* 'language_changed' event carrying that language, sent to the requesting
\* session; a request naming an unsupported language is answered by an
\* 'Unsupported language' error event.
C39_LanguageAnswered ==
    [][\A ws \in WS : \A language \in Languages :
          SetLanguage(ws, language) =>
              IF language \in SUPPORTED_LANGUAGES
              THEN Receives(ws, Event("language_changed", language))
              ELSE Receives(ws, Event("error", "Unsupported language"))]_vars

====
